---- MODULE Spec2Model ----
(***************************************************************************)
(* Model of di-matrix-cli: the analysis orchestrator                       *)
(* (internal/usecases/analyze.go) and the paginated group listing of the   *)
(* GitLab client (internal/gitlab/client.go).                              *)
(*                                                                         *)
(* Goroutines of a worker pool are interchangeable (the worker id is only  *)
(* logged), so a pool is represented by the set of items its workers hold  *)
(* and the number of workers that have left their receive loop.            *)
(***************************************************************************)
EXTENDS Integers, Sequences, FiniteSets, TLC

(***************************************************************************)
(* Program constants                                                       *)
(***************************************************************************)
defaultProjectWorkers == 5

defaultDependencyFileWorkers == 3

sequentialThreshold == 10

maxWorkers == 5

(***************************************************************************)
(* Bounds of the model                                                     *)
(***************************************************************************)
\* number of dependencies in the large manifest (file 5): above the threshold
BigDeps == 11

\* longest name and longest pattern of the exhaustive classifier inputs
MaxNameLen == 3

\* longest dependency list given to ClassifyDependencies
MaxDeps == 3

\* goroutines that use the logger, and calls each of them makes
LoggerThreads == 2

MaxLoggerCalls == 2

\* most packages a Trivy parser finds in a file
MaxPackages == 2

\* most dependencies of a project given to GenerateMatrix
MaxRowDeps == 2

\* largest number of pages of a group listing whose termination is checked
LivePages == 5

\* largest number of pages of a group listing: more pages after the first
\* than page workers
MaxPages == 7

\* number of projects of the large repository (5): above the project pool
ManyProjects == 6

\* number of manifests of the large project (repository 6): above the
\* file pool
ManyFiles == 4

\* largest number of tokens after the origin of a source URL
MaxPathLen == 3

\* largest number of files GetFilesList returns
MaxFiles == 3

(***************************************************************************)
(* The collaborators of the use case, as the mocks of its tests give them: *)
(* fixed tables of what each call returns when it succeeds.  Whether a     *)
(* call succeeds is chosen when it returns.                                *)
(***************************************************************************)
\* GitlabClient.GetRepositoriesList: URL 1 is a group holding repositories
\* 1 and 2, URL 2 is the project URL of repository 2, URL 5 an empty group,
\* URL 8 a subgroup that holds repository 2 only.
MockGetRepositoriesList(u) ==
    CASE u = 1 -> <<1, 2>>
      [] u = 2 -> <<2>>
      [] u = 3 -> <<3>>
      [] u = 4 -> <<4>>
      [] u = 6 -> <<5>>
      [] u = 7 -> <<6>>
      [] u = 8 -> <<2>>
      [] OTHER -> <<>>

\* RepositoryScanner.DetectProjects: the projects of a repository, each with
\* its ID and its DependencyFiles; Dependencies is empty at creation.
MockDetectProjects(r) ==
    CASE r = 1 -> << [ID |-> "repo-1-go", DependencyFiles |-> <<1>>,
                      Dependencies |-> <<>>] >>
      [] r = 2 -> << [ID |-> "repo-2-nodejs", DependencyFiles |-> <<2>>,
                      Dependencies |-> <<>>] >>
      [] r = 3 -> << [ID |-> "repo-3-go", DependencyFiles |-> <<3, 4>>,
                      Dependencies |-> <<>>],
                     [ID |-> "repo-3-docs-python", DependencyFiles |-> <<>>,
                      Dependencies |-> <<>>] >>
      [] r = 4 -> << [ID |-> "repo-4-java", DependencyFiles |-> <<5>>,
                      Dependencies |-> <<>>] >>
      [] r = 5 -> [k \in 1..ManyProjects |->
                     [ID |-> "repo-5-svc" \o ToString(k) \o "-go",
                      DependencyFiles |-> <<>>, Dependencies |-> <<>>]]
      [] r = 6 -> << [ID |-> "repo-6-python",
                      DependencyFiles |->
                          [k \in 1..ManyFiles |-> IF k = 1 THEN 3 ELSE 2],
                      Dependencies |-> <<>>] >>
      [] OTHER -> <<>>

\* DependencyParser.ParseFile: the dependency names of a manifest file.
MockParseFile(f) ==
    CASE f = 1 -> <<1, 2>>
      [] f = 2 -> <<>>
      [] f = 3 -> <<3>>
      [] f = 4 -> <<4, 1>>
      [] f = 5 -> [k \in 1..BigDeps |-> k]
      [] OTHER -> <<>>

\* DependencyClassifier.IsInternal: a pure function of the dependency name.
MockIsInternal(name) == name % 2 = 1

\* a Dependency as the parser creates it
NewDependency(name) == [Name |-> name, IsInternal |-> FALSE]

\* the inputs of Execute
InputURLs ==
    { <<>>, <<1>>, <<8, 2>>, <<3>>, <<4>>, <<5>>, <<6>>, <<7>>, <<9>> }

VARIABLES
    repositoryURLs,     \* the argument of Execute
    pc,                 \* position of the goroutine that runs Execute
    ctxDone,            \* uc.ctx is cancelled or past its deadline
    urlTask,            \* state of the goroutine of each source URL
    errChan,            \* errors sent by the URL goroutines
    repositories,       \* Execute's repositories slice
    scanTask,           \* state of the goroutine of each repository
    scanFailed,         \* indices of repositories whose DetectProjects failed
    scanCancelled,      \* those that failed because the context was done
    allProjects,        \* Execute's allProjects slice (the Project objects)
    projectChan,        \* processProjectsConcurrently: the project queue
    projSent,           \* number of projects sent to projectChan
    projChanClosed,     \* projectChan is closed
    projWorkersExited,  \* project workers that left their receive loop
    pp,                 \* per project: state of its processProject call
    totalDependencies,  \* shared counters of processProjectsConcurrently
    internalCount,
    externalCount,
    errors,             \* number of collected project errors
    genCalls,           \* number of GenerateHTML calls
    genArg,             \* the project list handed to GenerateHTML
    genFailed,          \* GenerateHTML returned an error
    held,               \* the locks that are held, each with its holder
    seen,               \* per goroutine: the slice it has read in an append,
                        \* or the error its call returned, until it is used
    response            \* what Execute returned

varsExec == << repositoryURLs, pc, ctxDone, urlTask, errChan, repositories,
               scanTask, scanFailed, scanCancelled, allProjects, projectChan,
               projSent,
               projChanClosed, projWorkersExited, pp, totalDependencies,
               internalCount, externalCount, errors, genCalls, genArg,
               genFailed, held, seen, response >>

VARIABLES
    totalPages,     \* getGroupProjects: resp.TotalPages of the first page
    firstPage,      \* len(firstPage): the projects on the first page
    gpPc,           \* position of the goroutine that runs getGroupProjects
    gpStarted,      \* the page workers and the closing goroutine are started
    gpCtxDone,      \* the context of the call is cancelled
    pageChan,       \* page numbers still to be fetched
    selecting,      \* pages received whose worker has not reached its select
    inFlight,       \* pages whose ListGroupProjects call is in flight
    pageExited,     \* page workers that have returned
    resultChan,     \* fetched pages, each standing for its repositories
    errorChan,      \* errors sent by the page workers
    resultClosed,   \* resultChan is closed
    errorClosed,    \* errorChan is closed
    collected,      \* the collector's loop counter i
    allRepos,       \* the collector's allRepos, as the pages it holds
    gpRet,          \* what getGroupProjects returned
    fetchFailed,    \* pages whose fetch failed
    requested       \* per page, the number of ListGroupProjects calls

varsPages == << totalPages, firstPage, gpPc, gpStarted, gpCtxDone, pageChan,
                selecting, inFlight, pageExited, resultChan, errorChan,
                resultClosed, errorClosed, collected, allRepos, gpRet,
                fetchFailed, requested >>

VARIABLES
    repoURL,        \* GetRepositoriesList: its argument
    grPc,           \* position of the goroutine that runs the call
    grPath,         \* the path ExtractProjectPath returned
    remoteCalls,    \* the calls to the remote API made so far, in order
    grRet           \* what GetRepositoriesList returned

varsClient == << repoURL, grPc, grPath, remoteCalls, grRet >>

VARIABLES
    files,            \* DetectProjects: what GetFilesList returns
    failing,          \* the files whose GetFileContent call fails
    run,              \* the number of the DetectProjects call: 1 or 2
    scPc,             \* position of the goroutine that runs the call
    listFailed,       \* the GetFilesList call of this run failed
    dependencyFiles,  \* the filtered file list
    projectMap,       \* groupDependencyFilesByProject: key to group
    pending,          \* keys the range over projectMap has not yet given
    group,            \* createProjectFromGroup: its group
    fetched,          \* number of files of the group already handled
    groupFiles,       \* createProjectFromGroup: its dependencyFiles
    projects,         \* the projects slice of DetectProjects
    scRet,            \* what DetectProjects returned
    firstRet          \* what the first call returned

varsScanner == << files, failing, run, scPc, listFailed, dependencyFiles,
                  projectMap, pending, group, fetched, groupFiles, projects,
                  scRet, firstRet >>

VARIABLES
    internalPatterns, \* the Classifier's ruleset
    dependencies,     \* ClassifyDependencies: its argument
    clRun,            \* the number of the ClassifyDependencies call: 1 or 2
    clPc,             \* position of the goroutine that runs the call
    clIdx,            \* position of the range loop in the list
    clRet,            \* what ClassifyDependencies returned
    clFirst,          \* the list as the first call left it
    clArg             \* the list as it was when the call began

varsClassifier == << internalPatterns, dependencies, clRun, clPc, clIdx,
                     clRet, clFirst, clArg >>

VARIABLES
    lgThreads,        \* the goroutines that call the logger package
    lgPc,             \* per goroutine, its position
    lgLevel,          \* per goroutine, the argument of its SetLevel call
    lgCalls,          \* per goroutine, the number of calls it has made
    once,             \* the sync.Once: "new", "running" or "done"
    instance,         \* the package variable instance
    readers,          \* the goroutines that hold instance.mu for reading
    writer,           \* the goroutines that hold instance.mu for writing
    zapNew,           \* the number of zap.New calls so far
    lgReturned        \* the values the GetLogger calls have returned

varsLogger == << lgThreads, lgPc, lgLevel, lgCalls, once, instance, readers,
                 writer, zapNew, lgReturned >>

VARIABLES
    pfPath,           \* the path of a file of the repository
    pfScanned,        \* the file reaches ParseFile through the scanner
    pfTrivy,          \* what the Trivy parser for the file would return
    pfPc,             \* position in the scan and parse of the file
    pfFile,           \* the DependencyFile given to ParseFile
    pfParser,         \* the Trivy parser ParseFile dispatched to
    pfRet             \* what ParseFile returned

varsParser == << pfPath, pfScanned, pfTrivy, pfPc, pfFile, pfParser, pfRet >>

VARIABLES
    gmProjects,       \* GenerateMatrix: its argument
    gmPc,             \* position of the goroutine that runs the call
    filteredProjects, \* the projects with at least one dependency
    sortedProjects,   \* the same, sorted by repository name and path
    allDependencySet, \* collectAllDependencies: name to dependency
    allDependencies,  \* the dependency names, the columns
    allProjectDeps,   \* createProjectDependencyMap: ID to name to dependency
    maxVersions,      \* findMaxVersionsForDependencies: name to version
    gmRet             \* what GenerateMatrix returned

varsGenerator == << gmProjects, gmPc, filteredProjects, sortedProjects,
                    allDependencySet, allDependencies, allProjectDeps,
                    maxVersions, gmRet >>

vars ==
    << varsExec, varsPages, varsClient, varsScanner, varsClassifier,
       varsLogger, varsParser, varsGenerator >>

\* what the steps of one operation leave alone
othersExec ==
    << varsPages, varsClient, varsScanner, varsClassifier, varsLogger,
       varsParser, varsGenerator >>

othersPages ==
    << varsExec, varsClient, varsScanner, varsClassifier, varsLogger,
       varsParser, varsGenerator >>

othersClient ==
    << varsExec, varsPages, varsScanner, varsClassifier, varsLogger,
       varsParser, varsGenerator >>

othersScanner ==
    << varsExec, varsPages, varsClient, varsClassifier, varsLogger,
       varsParser, varsGenerator >>

othersClassifier ==
    << varsExec, varsPages, varsClient, varsScanner, varsLogger,
       varsParser, varsGenerator >>

othersLogger ==
    << varsExec, varsPages, varsClient, varsScanner, varsClassifier,
       varsParser, varsGenerator >>

othersParser ==
    << varsExec, varsPages, varsClient, varsScanner, varsClassifier,
       varsLogger, varsGenerator >>

othersGenerator ==
    << varsExec, varsPages, varsClient, varsScanner, varsClassifier,
       varsLogger, varsParser >>

InitExec ==
    /\ repositoryURLs \in InputURLs
    /\ pc = "resolve"
    /\ ctxDone = FALSE
    /\ urlTask = [k \in 1..Len(repositoryURLs) |-> "ready"]
    /\ errChan = <<>>
    /\ repositories = <<>>
    /\ scanTask = <<>>
    /\ scanFailed = {}
    /\ scanCancelled = {}
    /\ allProjects = <<>>
    /\ projectChan = <<>>
    /\ projSent = 0
    /\ projChanClosed = FALSE
    /\ projWorkersExited = 0
    /\ pp = <<>>
    /\ totalDependencies = 0
    /\ internalCount = 0
    /\ externalCount = 0
    /\ errors = 0
    /\ genCalls = 0
    /\ genArg = <<>>
    /\ genFailed = FALSE
    /\ held = {}
    /\ seen = {}
    /\ response = [status |-> "none"]

(***************************************************************************)
(* Client.GetRepositoriesList and Client.ExtractProjectPath.  A string is  *)
(* the sequence of its tokens: the origin "https://gitlab.com", the        *)
(* separator "/", path segments, percent escapes; concatenation is \o and  *)
(* a nil error is the empty message.                                       *)
(***************************************************************************)
Origin == "https://gitlab.com"

\* a URL that starts with a colon has no scheme
NoScheme == "://"

PathTokens == { "/", "group", "proj", "%2F", "%25", "%zz" }

\* the strings of at most MaxPathLen path tokens
PathStrings == UNION { [1..n -> PathTokens] : n \in 0..MaxPathLen }

\* the source URLs GetRepositoriesList is called with: a path after the
\* origin, a relative reference (not one that starts with "//", which
\* would name a host), or a string without scheme
SourceURLs ==
    { <<Origin>> \o r : r \in { q \in PathStrings : q = <<>> \/ q[1] = "/" } }
    \cup { r \in PathStrings : ~(Len(r) >= 2 /\ r[1] = "/" /\ r[2] = "/") }
    \cup { <<NoScheme>> \o r : r \in { q \in PathStrings : Len(q) <= 1 } }

\* the decoding of one token: "%zz" is no escape and has no decoding
Unescaped(token) ==
    CASE token = "%2F" -> "/"
      [] token = "%25" -> "%"
      [] OTHER -> token

\* url.Parse: the decoded path, or an error for a string without scheme
\* or with a malformed escape
Parse(rawURL) ==
    IF rawURL # <<>> /\ Head(rawURL) = NoScheme
    THEN [ok |-> FALSE, Path |-> <<>>,
          err |-> <<"parse ">> \o rawURL \o <<": missing protocol scheme">>]
    ELSE LET rest == IF rawURL # <<>> /\ Head(rawURL) = Origin
                     THEN Tail(rawURL) ELSE rawURL
         IN  IF \E k \in 1..Len(rest) : rest[k] = "%zz"
             THEN [ok |-> FALSE, Path |-> <<>>,
                   err |-> <<"parse ">> \o rawURL
                               \o <<": invalid URL escape">>]
             ELSE [ok |-> TRUE,
                   Path |-> [k \in 1..Len(rest) |-> Unescaped(rest[k])],
                   err |-> <<>>]

\* strings.TrimPrefix and strings.TrimSuffix with a one-token affix
TrimPrefix(str, prefix) ==
    IF str # <<>> /\ Head(str) = prefix THEN Tail(str) ELSE str

TrimSuffix(str, suffix) ==
    IF str # <<>> /\ str[Len(str)] = suffix
    THEN SubSeq(str, 1, Len(str) - 1) ELSE str

\* url.PathUnescape of an already decoded path: a "%" left by the first
\* decoding is followed by no two hexadecimal digits, which is an error
PathUnescape(path) ==
    IF \E k \in 1..Len(path) : path[k] = "%"
    THEN [ok |-> FALSE, path |-> <<>>]
    ELSE [ok |-> TRUE, path |-> path]

\* a bug: the check for an empty path is missing
NoPathFound_Never(path) == FALSE

\* the check of ExtractProjectPath after the trimming
NoPathFound(path) == path = <<>>

\* Client.ExtractProjectPath
ClientExtractProjectPath(gitlabURL) ==
    LET parsedURL == Parse(gitlabURL)
        path == TrimSuffix(TrimPrefix(parsedURL.Path, "/"), "/")
        decoded == PathUnescape(path)
    IN  IF ~parsedURL.ok
        THEN [ok |-> FALSE, path |-> <<>>, err |-> parsedURL.err]
        ELSE IF NoPathFound(path)
        THEN [ok |-> FALSE, path |-> <<>>,
              err |-> <<"no path found in URL: ">> \o gitlabURL]
        ELSE [ok |-> TRUE,
              path |-> IF decoded.ok THEN decoded.path ELSE path,
              err |-> <<>>]

\* the errors GetRepositoriesList builds with fmt.Errorf
ExtractPathError(url, err) ==
    <<"failed to extract path from URL ">> \o url \o <<": ">> \o err

ProjectOrGroupError(path, err) ==
    <<"failed to get project or group ">> \o path \o <<": ">> \o err

\* ctx.Err() of a cancelled context
ContextError == <<"context canceled">>

\* the errors of getGroupProjects, which GetRepositoriesList returns as
\* they are: a failed first page, a failed later page
GroupProjectsErrors(cause) ==
    { <<"failed to get first page of projects for group ", "42", ": ">>
          \o cause,
      <<"failed to get page ", "2", " for group ", "42", ": ">> \o cause }

(***************************************************************************)
(* The shared context: cancellation or deadline expiry can come at any     *)
(* moment of a running Execute.                                            *)
(***************************************************************************)
Cancel ==
    /\ pc # "done"
    /\ ~ctxDone
    /\ ctxDone' = TRUE
    /\ UNCHANGED << othersExec, held, seen >>
    /\ UNCHANGED << repositoryURLs, pc, urlTask, errChan, repositories,
                    scanTask, scanFailed, scanCancelled, allProjects,
                    projectChan, projSent,
                    projChanClosed, projWorkersExited, pp, totalDependencies,
                    internalCount, externalCount, errors, genCalls, genArg,
                    genFailed, response >>

(***************************************************************************)
(* The mutexes of the use case.  A lock is named by the function that      *)
(* declares it and, for a lock local to one processProject or one          *)
(* classifyDependenciesConcurrently call, by the project and file of that  *)
(* call; a holder is the goroutine that called Lock().                     *)
(***************************************************************************)
Mutex(name, i, j) == << name, i, j >>

\* the goroutine of source URL k, of repository k, the project worker while
\* it has project i, the file worker while it has file j of project i, the
\* goroutine of dependency d of that file
Goroutine(kind, a, b, c) == << kind, a, b, c >>

\* a bug: a mutex that excludes nobody
LockFree_Always(m) == TRUE

\* Lock() returns only when no goroutine holds the mutex
LockFree(m) == \A h \in held : h.lock # m

Lock(m, g) == held \cup { [lock |-> m, task |-> g] }

\* a bug: the Unlock() call is missing
Unlock_Missing(m, g) == held

Unlock(m, g) == held \ { [lock |-> m, task |-> g] }

\* what goroutine g holds in a local variable.  append(slice, ...) reads
\* the slice and then assigns the longer one: the slice g has read is kept
\* until it assigns.  The error of a failed call is kept until it is sent
Read(g, slice) == seen \cup { [task |-> g, value |-> slice] }

Seen(g) == (CHOOSE r \in seen : r.task = g).value

Assigned(g) == { r \in seen : r.task # g }

\* the source URLs of the inputs of Execute; URL 9 has no path
SourceURL(u) ==
    CASE u = 1 -> << Origin, "/", "group" >>
      [] u = 2 -> << Origin, "/", "group", "/", "proj" >>
      [] u = 3 -> << Origin, "/", "proj" >>
      [] u = 4 -> << Origin, "/", "proj", "/", "proj" >>
      [] u = 5 -> << Origin, "/", "group", "/", "group" >>
      [] u = 6 -> << Origin, "/", "proj", "/", "group" >>
      [] u = 7 -> << Origin, "/", "group", "/", "proj", "/", "proj" >>
      [] u = 8 -> << Origin, "/", "group", "%2F", "group" >>
      [] OTHER -> << Origin, "/" >>

\* what a failed remote call reports
RemoteCause ==
    IF ctxDone THEN ContextError ELSE <<"404 Not Found">>

\* the errors GetRepositoriesList can return for a URL with a path
GetRepositoriesListErrors(path) ==
    { ProjectOrGroupError(path, RemoteCause) }
    \cup GroupProjectsErrors(RemoteCause)
    \cup (IF ctxDone THEN { ContextError } ELSE {})

\* a call that goes to the GitLab API fails once the context is done;
\* otherwise it may succeed or fail
ApiOutcomes == IF ctxDone THEN {FALSE} ELSE BOOLEAN

(***************************************************************************)
(* Execute, step 1: one goroutine per source URL                           *)
(***************************************************************************)
StartGetRepositoriesList(k) ==
    /\ urlTask[k] = "ready"
    /\ urlTask' = [urlTask EXCEPT ![k] = "calling"]
    /\ UNCHANGED << othersExec, held, seen >>
    /\ UNCHANGED << repositoryURLs, pc, ctxDone, errChan, repositories,
                    scanTask, scanFailed, scanCancelled, allProjects,
                    projectChan, projSent,
                    projChanClosed, projWorkersExited, pp, totalDependencies,
                    internalCount, externalCount, errors, genCalls, genArg,
                    genFailed, response >>

\* GetRepositoriesList returns: its error for a URL without path, else
\* the repositories or one of its errors for a failed remote call; the
\* goroutine holds the error in err, whatever happens to the context later
ReturnGetRepositoriesList(k) ==
    /\ urlTask[k] = "calling"
    /\ LET url == SourceURL(repositoryURLs[k])
           r == ClientExtractProjectPath(url)
       IN  IF ~r.ok
           THEN /\ seen' = Read(Goroutine("url", k, 0, 0),
                                ExtractPathError(url, r.err))
                /\ urlTask' = [urlTask EXCEPT ![k] = "send"]
           ELSE \E ok \in ApiOutcomes :
                  IF ok
                  THEN /\ urlTask' = [urlTask EXCEPT ![k] = "lock"]
                       /\ UNCHANGED seen
                  ELSE /\ \E e \in GetRepositoriesListErrors(r.path) :
                            seen' = Read(Goroutine("url", k, 0, 0), e)
                       /\ urlTask' = [urlTask EXCEPT ![k] = "send"]
    /\ UNCHANGED << othersExec, held >>
    /\ UNCHANGED << repositoryURLs, pc, ctxDone, errChan, repositories,
                    scanTask, scanFailed, scanCancelled, allProjects,
                    projectChan, projSent,
                    projChanClosed, projWorkersExited, pp, totalDependencies,
                    internalCount, externalCount, errors, genCalls, genArg,
                    genFailed, response >>

\* errChan <- err: the error is sent and the goroutine returns; errChan has
\* room for one error of every goroutine
SendError(k) ==
    /\ urlTask[k] = "send"
    /\ errChan' = Append(errChan, Seen(Goroutine("url", k, 0, 0)))
    /\ urlTask' = [urlTask EXCEPT ![k] = "done"]
    /\ seen' = Assigned(Goroutine("url", k, 0, 0))
    /\ UNCHANGED << othersExec, held >>
    /\ UNCHANGED << repositoryURLs, pc, ctxDone, repositories,
                    scanTask, scanFailed, scanCancelled, allProjects,
                    projectChan, projSent,
                    projChanClosed, projWorkersExited, pp, totalDependencies,
                    internalCount, externalCount, errors, genCalls, genArg,
                    genFailed, response >>

\* mu.Lock()
LockRepositories(k) ==
    /\ urlTask[k] = "lock"
    /\ LockFree(Mutex("Execute.mu", 0, 0))
    /\ held' = Lock(Mutex("Execute.mu", 0, 0), Goroutine("url", k, 0, 0))
    /\ urlTask' = [urlTask EXCEPT ![k] = "append"]
    /\ seen' = Read(Goroutine("url", k, 0, 0), repositories)
    /\ UNCHANGED othersExec
    /\ UNCHANGED << repositoryURLs, pc, ctxDone, errChan, repositories,
                    scanTask, scanFailed, scanCancelled, allProjects,
                    projectChan, projSent,
                    projChanClosed, projWorkersExited, pp, totalDependencies,
                    internalCount, externalCount, errors, genCalls, genArg,
                    genFailed, response >>

\* the append and mu.Unlock()
AppendRepositories(k) ==
    /\ urlTask[k] = "append"
    /\ repositories' =
         Seen(Goroutine("url", k, 0, 0))
             \o MockGetRepositoriesList(repositoryURLs[k])
    /\ held' = Unlock(Mutex("Execute.mu", 0, 0), Goroutine("url", k, 0, 0))
    /\ urlTask' = [urlTask EXCEPT ![k] = "done"]
    /\ seen' = Assigned(Goroutine("url", k, 0, 0))
    /\ UNCHANGED othersExec
    /\ UNCHANGED << repositoryURLs, pc, ctxDone, errChan,
                    scanTask, scanFailed, scanCancelled, allProjects,
                    projectChan, projSent,
                    projChanClosed, projWorkersExited, pp, totalDependencies,
                    internalCount, externalCount, errors, genCalls, genArg,
                    genFailed, response >>

\* wg.Wait(): every URL goroutine has run its deferred wg.Done()
ResolveWait == \A k \in 1..Len(urlTask) : urlTask[k] = "done"

\* a bug: Execute aborts only when every source URL failed
ResolveError_AllFailed == Len(errChan) > 0 /\ Len(errChan) = Len(urlTask)

\* the loop over the closed errChan finds an error
ResolveError == Len(errChan) > 0

\* after wg.Wait(): return the first error, or start one goroutine per
\* repository
ResolveDone ==
    /\ pc = "resolve"
    /\ ResolveWait
    /\ IF ResolveError
       THEN /\ response' = [status |-> "err", err |-> Head(errChan)]
            /\ pc' = "done"
            /\ UNCHANGED scanTask
       ELSE /\ pc' = "scan"
            /\ scanTask' = [k \in 1..Len(repositories) |-> "ready"]
            /\ UNCHANGED response
    /\ UNCHANGED << othersExec, held, seen >>
    /\ UNCHANGED << repositoryURLs, ctxDone, urlTask, errChan, repositories,
                    scanFailed, scanCancelled, allProjects, projectChan,
                    projSent,
                    projChanClosed, projWorkersExited, pp, totalDependencies,
                    internalCount, externalCount, errors, genCalls, genArg,
                    genFailed >>

(***************************************************************************)
(* Execute, step 2: one goroutine per repository                           *)
(***************************************************************************)
StartDetectProjects(k) ==
    /\ scanTask[k] = "ready"
    /\ scanTask' = [scanTask EXCEPT ![k] = "calling"]
    /\ UNCHANGED << othersExec, held, seen >>
    /\ UNCHANGED << repositoryURLs, pc, ctxDone, urlTask, errChan,
                    repositories, scanFailed, scanCancelled, allProjects,
                    projectChan,
                    projSent, projChanClosed, projWorkersExited, pp,
                    totalDependencies, internalCount, externalCount, errors,
                    genCalls, genArg, genFailed, response >>

\* a bug: the return after the logged error is missing
AfterScanError_NoReturn == "lock"

\* the state of the repository goroutine after a failed DetectProjects:
\* the error is logged and the goroutine returns
AfterScanError == "done"

ReturnDetectProjects(k) ==
    /\ scanTask[k] = "calling"
    /\ \E ok \in ApiOutcomes :
         IF ok
         THEN /\ scanTask' = [scanTask EXCEPT ![k] = "lock"]
              /\ UNCHANGED << scanFailed, scanCancelled >>
         ELSE /\ scanTask' = [scanTask EXCEPT ![k] = AfterScanError]
              /\ scanFailed' = scanFailed \cup {k}
              /\ scanCancelled' =
                    IF ctxDone THEN scanCancelled \cup {k} ELSE scanCancelled
    /\ UNCHANGED << othersExec, held, seen >>
    /\ UNCHANGED << repositoryURLs, pc, ctxDone, urlTask, errChan,
                    repositories, allProjects, projectChan,
                    projSent, projChanClosed, projWorkersExited, pp,
                    totalDependencies, internalCount, externalCount, errors,
                    genCalls, genArg, genFailed, response >>

\* projectsMu.Lock()
LockProjects(k) ==
    /\ scanTask[k] = "lock"
    /\ LockFree(Mutex("Execute.projectsMu", 0, 0))
    /\ held' = Lock(Mutex("Execute.projectsMu", 0, 0),
                    Goroutine("repo", k, 0, 0))
    /\ scanTask' = [scanTask EXCEPT ![k] = "append"]
    /\ seen' = Read(Goroutine("repo", k, 0, 0), allProjects)
    /\ UNCHANGED othersExec
    /\ UNCHANGED << repositoryURLs, pc, ctxDone, urlTask, errChan,
                    repositories, scanFailed, scanCancelled, allProjects,
                    projectChan,
                    projSent, projChanClosed, projWorkersExited, pp,
                    totalDependencies, internalCount, externalCount, errors,
                    genCalls, genArg, genFailed, response >>

\* the append and projectsMu.Unlock()
AppendProjects(k) ==
    /\ scanTask[k] = "append"
    /\ allProjects' = Seen(Goroutine("repo", k, 0, 0))
                       \o MockDetectProjects(repositories[k])
    /\ held' = Unlock(Mutex("Execute.projectsMu", 0, 0),
                      Goroutine("repo", k, 0, 0))
    /\ scanTask' = [scanTask EXCEPT ![k] = "done"]
    /\ seen' = Assigned(Goroutine("repo", k, 0, 0))
    /\ UNCHANGED othersExec
    /\ UNCHANGED << repositoryURLs, pc, ctxDone, urlTask, errChan,
                    repositories, scanFailed, scanCancelled, projectChan,
                    projSent, projChanClosed, projWorkersExited, pp,
                    totalDependencies, internalCount, externalCount, errors,
                    genCalls, genArg, genFailed, response >>

\* a bug: the repository goroutines are not waited for
ScanWait_NoWait == TRUE

\* projectsWg.Wait()
ScanWait == \A k \in 1..Len(scanTask) : scanTask[k] = "done"

\* the locals of one processProject call and of its file workers; with
\* them, the number of assignments to project.Dependencies (assigned), of
\* receptions of the project from projectChan (taken), per file of ParseFile
\* calls (parsed) and, per dependency of a file, of assignments to its
\* IsInternal field (writes)
NewProcessProject(project) ==
    [ st |-> "new",
      fileChan |-> <<>>, sent |-> 0, closed |-> FALSE,
      workers |-> 0, exited |-> 0,
      file |-> [j \in 1..Len(project.DependencyFiles) |->
                  [st |-> "new", deps |-> <<>>, done |-> {},
                   internalCount |-> 0, externalCount |-> 0,
                   writes |-> <<>>, parsed |-> 0]],
      projectDependencies |-> <<>>,
      projectInternal |-> 0, projectExternal |-> 0,
      projectErrors |-> 0,
      assigned |-> 0, taken |-> 0 ]

\* after projectsWg.Wait(): processProjectsConcurrently starts its workers
ScanDone ==
    /\ pc = "scan"
    /\ ScanWait
    /\ pc' = "process"
    /\ pp' = [i \in 1..Len(allProjects) |-> NewProcessProject(allProjects[i])]
    /\ UNCHANGED << othersExec, held, seen >>
    /\ UNCHANGED << repositoryURLs, ctxDone, urlTask, errChan, repositories,
                    scanTask, scanFailed, scanCancelled, allProjects,
                    projectChan, projSent,
                    projChanClosed, projWorkersExited, totalDependencies,
                    internalCount, externalCount, errors, genCalls, genArg,
                    genFailed, response >>

(***************************************************************************)
(* processProjectsConcurrently: defaultProjectWorkers workers read         *)
(* projectChan; the caller sends every project, closes the channel and     *)
(* waits for the workers.                                                  *)
(***************************************************************************)
\* projects a worker is processing
BusyProjects ==
    { i \in 1..Len(pp) : pp[i].st \in {"run", "ret", "update"} }

\* project workers blocked in their receive on projectChan
IdleProjectWorkers ==
    defaultProjectWorkers - Cardinality(BusyProjects) - projWorkersExited

\* a bug: every iteration sends the project of the last one
NextProject_Last == Len(allProjects)

\* the project the loop over the projects sends next
NextProject == projSent + 1

SendProject ==
    /\ pc = "process"
    /\ projSent < Len(allProjects)
    /\ projectChan' = Append(projectChan, NextProject)
    /\ projSent' = projSent + 1
    /\ UNCHANGED << othersExec, held, seen >>
    /\ UNCHANGED << repositoryURLs, pc, ctxDone, urlTask, errChan,
                    repositories, scanTask, scanFailed, scanCancelled,
                    allProjects,
                    projChanClosed, projWorkersExited, pp, totalDependencies,
                    internalCount, externalCount, errors, genCalls, genArg,
                    genFailed, response >>

CloseProjectChan ==
    /\ pc = "process"
    /\ projSent = Len(allProjects)
    /\ ~projChanClosed
    /\ projChanClosed' = TRUE
    /\ UNCHANGED << othersExec, held, seen >>
    /\ UNCHANGED << repositoryURLs, pc, ctxDone, urlTask, errChan,
                    repositories, scanTask, scanFailed, scanCancelled,
                    allProjects,
                    projectChan, projSent, projWorkersExited, pp,
                    totalDependencies, internalCount, externalCount, errors,
                    genCalls, genArg, genFailed, response >>

\* a bug: one file worker per manifest, without the cap
FileWorkers_PerFile(project) == Len(project.DependencyFiles)

\* the number of file workers processProject starts
FileWorkers(project) ==
    IF Len(project.DependencyFiles) < defaultDependencyFileWorkers
    THEN Len(project.DependencyFiles)
    ELSE defaultDependencyFileWorkers

\* a worker receives the next project and enters processProject, which
\* creates fileChan and starts the file workers
WorkerTakeProject ==
    /\ pc = "process"
    /\ IdleProjectWorkers > 0
    /\ projectChan # <<>>
    /\ LET i == Head(projectChan) IN
         pp' = [pp EXCEPT ![i].st = "run",
                          ![i].taken = @ + 1,
                          ![i].workers = FileWorkers(allProjects[i])]
    /\ projectChan' = Tail(projectChan)
    /\ UNCHANGED << othersExec, held, seen >>
    /\ UNCHANGED << repositoryURLs, pc, ctxDone, urlTask, errChan,
                    repositories, scanTask, scanFailed, scanCancelled,
                    allProjects,
                    projSent, projChanClosed, projWorkersExited,
                    totalDependencies, internalCount, externalCount, errors,
                    genCalls, genArg, genFailed, response >>

\* a worker finds projectChan closed and drained and returns
WorkerExit ==
    /\ pc = "process"
    /\ IdleProjectWorkers > 0
    /\ projChanClosed
    /\ projectChan = <<>>
    /\ projWorkersExited' = projWorkersExited + 1
    /\ UNCHANGED << othersExec, held, seen >>
    /\ UNCHANGED << repositoryURLs, pc, ctxDone, urlTask, errChan,
                    repositories, scanTask, scanFailed, scanCancelled,
                    allProjects,
                    projectChan, projSent, projChanClosed, pp,
                    totalDependencies, internalCount, externalCount, errors,
                    genCalls, genArg, genFailed, response >>

(***************************************************************************)
(* processProject(project i)                                               *)
(***************************************************************************)
\* files a file worker of project i is working on
BusyFiles(i) ==
    { j \in 1..Len(pp[i].file) :
        pp[i].file[j].st \in
            {"parsing", "errlock", "error", "classify", "lock", "merge"} }

IdleFileWorkers(i) ==
    pp[i].workers - Cardinality(BusyFiles(i)) - pp[i].exited

\* the file the loop over the dependency files sends next
NextFile(i) == pp[i].sent + 1

SendFile(i) ==
    /\ pp[i].st = "run"
    /\ pp[i].sent < Len(allProjects[i].DependencyFiles)
    /\ pp' = [pp EXCEPT ![i].fileChan = Append(@, NextFile(i)),
                        ![i].sent = @ + 1]
    /\ UNCHANGED << othersExec, held, seen >>
    /\ UNCHANGED << repositoryURLs, pc, ctxDone, urlTask, errChan,
                    repositories, scanTask, scanFailed, scanCancelled,
                    allProjects,
                    projectChan, projSent, projChanClosed, projWorkersExited,
                    totalDependencies, internalCount, externalCount, errors,
                    genCalls, genArg, genFailed, response >>

CloseFileChan(i) ==
    /\ pp[i].st = "run"
    /\ pp[i].sent = Len(allProjects[i].DependencyFiles)
    /\ ~pp[i].closed
    /\ pp' = [pp EXCEPT ![i].closed = TRUE]
    /\ UNCHANGED << othersExec, held, seen >>
    /\ UNCHANGED << repositoryURLs, pc, ctxDone, urlTask, errChan,
                    repositories, scanTask, scanFailed, scanCancelled,
                    allProjects,
                    projectChan, projSent, projChanClosed, projWorkersExited,
                    totalDependencies, internalCount, externalCount, errors,
                    genCalls, genArg, genFailed, response >>

\* a file worker receives the next file and calls ParseFile
FileWorkerTake(i) ==
    /\ pp[i].st = "run"
    /\ IdleFileWorkers(i) > 0
    /\ pp[i].fileChan # <<>>
    /\ LET j == Head(pp[i].fileChan) IN
         pp' = [pp EXCEPT ![i].file[j].st = "parsing",
                          ![i].file[j].parsed = @ + 1,
                          ![i].fileChan = Tail(@)]
    /\ UNCHANGED << othersExec, held, seen >>
    /\ UNCHANGED << repositoryURLs, pc, ctxDone, urlTask, errChan,
                    repositories, scanTask, scanFailed, scanCancelled,
                    allProjects,
                    projectChan, projSent, projChanClosed, projWorkersExited,
                    totalDependencies, internalCount, externalCount, errors,
                    genCalls, genArg, genFailed, response >>

FileWorkerExit(i) ==
    /\ pp[i].st = "run"
    /\ IdleFileWorkers(i) > 0
    /\ pp[i].closed
    /\ pp[i].fileChan = <<>>
    /\ pp' = [pp EXCEPT ![i].exited = @ + 1]
    /\ UNCHANGED << othersExec, held, seen >>
    /\ UNCHANGED << repositoryURLs, pc, ctxDone, urlTask, errChan,
                    repositories, scanTask, scanFailed, scanCancelled,
                    allProjects,
                    projectChan, projSent, projChanClosed, projWorkersExited,
                    totalDependencies, internalCount, externalCount, errors,
                    genCalls, genArg, genFailed, response >>

\* a bug: the result of ParseFile is merged as it is
AfterParseFile_Merge(deps) == "lock"

\* where the file worker goes with the result of ParseFile: to
\* classifyDependenciesConcurrently, which returns at once for an empty
\* list, and then to the merge under projectMu
AfterParseFile(deps) == IF Len(deps) = 0 THEN "lock" ELSE "classify"

\* ParseFile returns: an error is to be collected under projectErrorMu; a
\* result goes to classifyDependenciesConcurrently
ReturnParseFile(i, j) ==
    /\ pp[i].file[j].st = "parsing"
    /\ \E ok \in BOOLEAN :
         LET names == MockParseFile(allProjects[i].DependencyFiles[j])
             deps == [d \in 1..Len(names) |-> NewDependency(names[d])]
         IN  IF ok
             THEN pp' = [pp EXCEPT
                    ![i].file[j].deps = deps,
                    ![i].file[j].writes = [d \in 1..Len(deps) |-> 0],
                    ![i].file[j].st = AfterParseFile(deps)]
             ELSE pp' = [pp EXCEPT ![i].file[j].st = "errlock"]
    /\ UNCHANGED << othersExec, held, seen >>
    /\ UNCHANGED << repositoryURLs, pc, ctxDone, urlTask, errChan,
                    repositories, scanTask, scanFailed, scanCancelled,
                    allProjects,
                    projectChan, projSent, projChanClosed, projWorkersExited,
                    totalDependencies, internalCount, externalCount, errors,
                    genCalls, genArg, genFailed, response >>

\* projectErrorMu.Lock()
LockProjectErrors(i, j) ==
    /\ pp[i].file[j].st = "errlock"
    /\ LockFree(Mutex("processProject.projectErrorMu", i, 0))
    /\ held' = Lock(Mutex("processProject.projectErrorMu", i, 0),
                    Goroutine("file", i, j, 0))
    /\ pp' = [pp EXCEPT ![i].file[j].st = "error"]
    /\ UNCHANGED << othersExec, seen >>
    /\ UNCHANGED << repositoryURLs, pc, ctxDone, urlTask, errChan,
                    repositories, scanTask, scanFailed, scanCancelled,
                    allProjects,
                    projectChan, projSent, projChanClosed, projWorkersExited,
                    totalDependencies, internalCount, externalCount, errors,
                    genCalls, genArg, genFailed, response >>

\* the error is appended, projectErrorMu.Unlock(), and the worker
\* continues with the next file
AppendProjectError(i, j) ==
    /\ pp[i].file[j].st = "error"
    /\ pp' = [pp EXCEPT ![i].file[j].st = "failed",
                        ![i].projectErrors = @ + 1]
    /\ held' = Unlock(Mutex("processProject.projectErrorMu", i, 0),
                      Goroutine("file", i, j, 0))
    /\ UNCHANGED << othersExec, seen >>
    /\ UNCHANGED << repositoryURLs, pc, ctxDone, urlTask, errChan,
                    repositories, scanTask, scanFailed, scanCancelled,
                    allProjects,
                    projectChan, projSent, projChanClosed, projWorkersExited,
                    totalDependencies, internalCount, externalCount, errors,
                    genCalls, genArg, genFailed, response >>

\* a bug: the external counter is incremented for every dependency
CountClassified_NoElse(f, isInternal) ==
    [f EXCEPT !.internalCount = IF isInternal THEN @ + 1 ELSE @,
              !.externalCount = @ + 1]

\* classifyDependenciesConcurrently: the counters after one dependency
CountClassified(f, isInternal) ==
    [f EXCEPT !.internalCount = IF isInternal THEN @ + 1 ELSE @,
              !.externalCount = IF isInternal THEN @ ELSE @ + 1]

\* the dependencies that may be classified next: in list order up to the
\* threshold, one goroutine per dependency above it
Classifiable(f) ==
    IF Len(f.deps) <= sequentialThreshold
    THEN { Cardinality(f.done) + 1 } \cap (1..Len(f.deps))
    ELSE (1..Len(f.deps)) \ f.done

\* above the threshold each dependency has its goroutine
Concurrent(f) == Len(f.deps) > sequentialThreshold

\* the goroutine of dependency d: IsInternal has returned and mu.Lock()
\* is acquired
LockClassified(i, j, d) ==
    /\ pp[i].file[j].st = "classify"
    /\ Concurrent(pp[i].file[j])
    /\ d \in Classifiable(pp[i].file[j])
    /\ LockFree(Mutex("classifyDependenciesConcurrently.mu", i, j))
    /\ held' = Lock(Mutex("classifyDependenciesConcurrently.mu", i, j),
                    Goroutine("dependency", i, j, d))
    /\ UNCHANGED << othersExec, seen >>
    /\ UNCHANGED << repositoryURLs, pc, ctxDone, urlTask, errChan,
                    repositories, scanTask, scanFailed, scanCancelled,
                    allProjects, pp,
                    projectChan, projSent, projChanClosed, projWorkersExited,
                    totalDependencies, internalCount, externalCount, errors,
                    genCalls, genArg, genFailed, response >>

\* a bug: the goroutines share the loop variable and write the flag of the
\* dependency the loop ended with
Written_LoopVariable(f, d) == IF Concurrent(f) THEN Len(f.deps) ELSE d

\* the dependency whose flag the task of dependency d writes: its own, in
\* the loop as in the goroutine, which gets it as its argument
Written(f, d) == d

\* one dependency is classified: the flag is written and a counter
\* incremented, after the IsInternal call in the sequential loop, under mu
\* (which is then unlocked) in the goroutine of the dependency; after the
\* last dependency classifyDependenciesConcurrently returns
ClassifyDependency(i, j, d) ==
    /\ pp[i].file[j].st = "classify"
    /\ d \in Classifiable(pp[i].file[j])
    /\ IF Concurrent(pp[i].file[j])
       THEN /\ [lock |-> Mutex("classifyDependenciesConcurrently.mu", i, j),
                task |-> Goroutine("dependency", i, j, d)] \in held
            /\ held' = Unlock(Mutex("classifyDependenciesConcurrently.mu",
                                    i, j),
                              Goroutine("dependency", i, j, d))
       ELSE UNCHANGED held
    /\ LET f == pp[i].file[j]
           isInternal == MockIsInternal(f.deps[d].Name)
           g == CountClassified(
                  [f EXCEPT !.deps[Written(f, d)].IsInternal = isInternal,
                            !.writes[Written(f, d)] = @ + 1,
                            !.done = @ \cup {d}], isInternal)
       IN  pp' = [pp EXCEPT ![i].file[j] =
                    [g EXCEPT !.st = IF g.done = 1..Len(g.deps)
                                     THEN "lock" ELSE "classify"]]
    /\ UNCHANGED << othersExec, seen >>
    /\ UNCHANGED << repositoryURLs, pc, ctxDone, urlTask, errChan,
                    repositories, scanTask, scanFailed, scanCancelled,
                    allProjects,
                    projectChan, projSent, projChanClosed, projWorkersExited,
                    totalDependencies, internalCount, externalCount, errors,
                    genCalls, genArg, genFailed, response >>

\* projectMu.Lock()
LockProject(i, j) ==
    /\ pp[i].file[j].st = "lock"
    /\ LockFree(Mutex("processProject.projectMu", i, 0))
    /\ held' = Lock(Mutex("processProject.projectMu", i, 0),
                    Goroutine("file", i, j, 0))
    /\ pp' = [pp EXCEPT ![i].file[j].st = "merge"]
    /\ seen' = Read(Goroutine("file", i, j, 0), pp[i].projectDependencies)
    /\ UNCHANGED othersExec
    /\ UNCHANGED << repositoryURLs, pc, ctxDone, urlTask, errChan,
                    repositories, scanTask, scanFailed, scanCancelled,
                    allProjects,
                    projectChan, projSent, projChanClosed, projWorkersExited,
                    totalDependencies, internalCount, externalCount, errors,
                    genCalls, genArg, genFailed, response >>

\* under projectMu: the file's classified dependencies and counts are added
\* to the project's; projectMu.Unlock()
MergeFile(i, j) ==
    /\ pp[i].file[j].st = "merge"
    /\ held' = Unlock(Mutex("processProject.projectMu", i, 0),
                      Goroutine("file", i, j, 0))
    /\ LET f == pp[i].file[j] IN
         pp' = [pp EXCEPT
            ![i].projectDependencies =
                Seen(Goroutine("file", i, j, 0)) \o f.deps,
            ![i].projectInternal = @ + f.internalCount,
            ![i].projectExternal = @ + f.externalCount,
            ![i].file[j].st = "done"]
    /\ seen' = Assigned(Goroutine("file", i, j, 0))
    /\ UNCHANGED othersExec
    /\ UNCHANGED << repositoryURLs, pc, ctxDone, urlTask, errChan,
                    repositories, scanTask, scanFailed, scanCancelled,
                    allProjects,
                    projectChan, projSent, projChanClosed, projWorkersExited,
                    totalDependencies, internalCount, externalCount, errors,
                    genCalls, genArg, genFailed, response >>

\* a bug: the file workers are not waited for
FileWait_NoWait(i) == pp[i].closed

\* a bug: the wait group counts the whole pool, started or not
FileWait_WholePool(i) ==
    pp[i].closed /\ pp[i].exited = defaultDependencyFileWorkers

\* fileWg.Wait(): every file worker has returned
FileWait(i) == pp[i].closed /\ pp[i].exited = pp[i].workers

\* after fileWg.Wait(): project.Dependencies is assigned and processProject
\* returns its three counts
AssignDependencies(i) ==
    /\ pp[i].st = "run"
    /\ FileWait(i)
    /\ allProjects' = [allProjects EXCEPT
                         ![i].Dependencies = pp[i].projectDependencies]
    /\ pp' = [pp EXCEPT ![i].st = "ret", ![i].assigned = @ + 1]
    /\ UNCHANGED << othersExec, held, seen >>
    /\ UNCHANGED << repositoryURLs, pc, ctxDone, urlTask, errChan,
                    repositories, scanTask, scanFailed, scanCancelled,
                    projectChan, projSent, projChanClosed, projWorkersExited,
                    totalDependencies, internalCount, externalCount, errors,
                    genCalls, genArg, genFailed, response >>

\* a bug: the number of manifest files is returned as the count
ProcessProjectDeps_Files(i) == Len(pp[i].file)

\* the first value processProject returns: len(projectDependencies)
ProcessProjectDeps(i) == Len(pp[i].projectDependencies)

\* a bug: a project with a failed file is reported as failed
ProcessProjectErr_FileErrors(i) == pp[i].projectErrors > 0

\* the error processProject returns: always nil
ProcessProjectErr(i) == FALSE

\* the mutex the project worker takes after processProject: errorMu to
\* collect an error, mu to update the shared counters
CountersMutex(i) ==
    IF ProcessProjectErr(i)
    THEN Mutex("processProjectsConcurrently.errorMu", 0, 0)
    ELSE Mutex("processProjectsConcurrently.mu", 0, 0)

\* errorMu.Lock() or mu.Lock()
LockCounters(i) ==
    /\ pp[i].st = "ret"
    /\ LockFree(CountersMutex(i))
    /\ held' = Lock(CountersMutex(i), Goroutine("project", i, 0, 0))
    /\ pp' = [pp EXCEPT ![i].st = "update"]
    /\ UNCHANGED << othersExec, seen >>
    /\ UNCHANGED << repositoryURLs, pc, ctxDone, urlTask, errChan,
                    repositories, scanTask, scanFailed, scanCancelled,
                    allProjects,
                    projectChan, projSent, projChanClosed, projWorkersExited,
                    totalDependencies, internalCount, externalCount, errors,
                    genCalls, genArg, genFailed, response >>

\* under the mutex: an error is collected, otherwise the shared counters
\* are updated; Unlock()
UpdateCounters(i) ==
    /\ pp[i].st = "update"
    /\ held' = Unlock(CountersMutex(i), Goroutine("project", i, 0, 0))
    /\ IF ProcessProjectErr(i)
       THEN /\ errors' = errors + 1
            /\ UNCHANGED << totalDependencies, internalCount, externalCount >>
       ELSE /\ totalDependencies' =
                  totalDependencies + ProcessProjectDeps(i)
            /\ internalCount' = internalCount + pp[i].projectInternal
            /\ externalCount' = externalCount + pp[i].projectExternal
            /\ UNCHANGED errors
    /\ pp' = [pp EXCEPT ![i].st = "done"]
    /\ UNCHANGED << othersExec, seen >>
    /\ UNCHANGED << repositoryURLs, pc, ctxDone, urlTask, errChan,
                    repositories, scanTask, scanFailed, scanCancelled,
                    allProjects,
                    projectChan, projSent, projChanClosed, projWorkersExited,
                    genCalls, genArg, genFailed, response >>

\* a bug: GenerateHTML is reached once the queue is closed, workers running
ProcessWait_NoWait == projChanClosed

\* wg.Wait() of processProjectsConcurrently: every project worker returned
ProcessWait == projChanClosed /\ projWorkersExited = defaultProjectWorkers

\* a bug: projects without dependencies are left out of the report
GenerateHTMLArg_NonEmpty ==
    SelectSeq(allProjects, LAMBDA p : Len(p.Dependencies) > 0)

\* the project list Execute hands to the report generator
GenerateHTMLArg == allProjects

(***************************************************************************)
(* Execute, steps 4 and 5                                                  *)
(***************************************************************************)
\* processProjectsConcurrently returns (its error is always nil) and
\* GenerateHTML is called
CallGenerateHTML ==
    /\ pc = "process"
    /\ ProcessWait
    /\ pc' = "report"
    /\ genCalls' = genCalls + 1
    /\ genArg' = GenerateHTMLArg
    /\ UNCHANGED << othersExec, held, seen >>
    /\ UNCHANGED << repositoryURLs, ctxDone, urlTask, errChan, repositories,
                    scanTask, scanFailed, scanCancelled, allProjects,
                    projectChan, projSent,
                    projChanClosed, projWorkersExited, pp, totalDependencies,
                    internalCount, externalCount, errors, genFailed,
                    response >>

\* a bug: the error of GenerateHTML is dropped
ExecuteReturn_IgnoreError(ok) ==
    [status |-> "ok",
     TotalProjects |-> Len(allProjects),
     TotalDependencies |-> totalDependencies,
     InternalCount |-> internalCount,
     ExternalCount |-> externalCount]

\* what Execute returns once GenerateHTML has returned
ExecuteReturn(ok) ==
    IF ok
    THEN [status |-> "ok",
          TotalProjects |-> Len(allProjects),
          TotalDependencies |-> totalDependencies,
          InternalCount |-> internalCount,
          ExternalCount |-> externalCount]
    ELSE [status |-> "err", err |-> <<"failed to generate the report">>]

\* GenerateHTML returns; the generator does not look at the context
ReturnGenerateHTML ==
    /\ pc = "report"
    /\ \E ok \in BOOLEAN :
         /\ genFailed' = ~ok
         /\ response' = ExecuteReturn(ok)
    /\ pc' = "done"
    /\ UNCHANGED << othersExec, held, seen >>
    /\ UNCHANGED << repositoryURLs, ctxDone, urlTask, errChan, repositories,
                    scanTask, scanFailed, scanCancelled, allProjects,
                    projectChan, projSent,
                    projChanClosed, projWorkersExited, pp, totalDependencies,
                    internalCount, externalCount, errors, genCalls, genArg >>

\* the page size getGroupProjects asks for
perPage == 100

\* the numbers of projects the first page can hold
FirstPages == {0, perPage - 1, perPage}

(***************************************************************************)
(* Client.getGroupProjects: the first page, then maxWorkers workers over   *)
(* the remaining pages, a goroutine that closes the channels when the      *)
(* workers are done, and the collector loop.  A page stands for the        *)
(* repositories on it.  A nil error is written "nil".                      *)
(***************************************************************************)
InitPages ==
    /\ totalPages \in 1..MaxPages
    /\ firstPage \in FirstPages
    /\ gpPc = "first"
    /\ gpStarted = FALSE
    /\ gpCtxDone = FALSE
    /\ pageChan = <<>>
    /\ inFlight = {}
    /\ selecting = {}
    /\ pageExited = 0
    /\ resultChan = <<>>
    /\ errorChan = <<>>
    /\ resultClosed = FALSE
    /\ errorClosed = FALSE
    /\ collected = 0
    /\ allRepos = <<>>
    /\ gpRet = [status |-> "none"]
    /\ fetchFailed = {}
    /\ requested = [p \in 1..totalPages |-> IF p = 1 THEN 1 ELSE 0]

\* the context can be cancelled while the call or one of its goroutines runs
CancelPages ==
    /\ ~gpCtxDone
    /\ gpPc # "returned" \/ (gpStarted /\ ~errorClosed)
    /\ gpCtxDone' = TRUE
    /\ UNCHANGED << othersPages, requested, firstPage, selecting >>
    /\ UNCHANGED << gpStarted, totalPages,
                    gpPc, pageChan, inFlight, pageExited,
                    resultChan, errorChan, resultClosed, errorClosed,
                    collected, allRepos, gpRet, fetchFailed >>

\* outcomes of a ListGroupProjects call
PageOutcomes == IF gpCtxDone THEN {FALSE} ELSE BOOLEAN

\* the first page returns: an error is returned, a first page of fewer than
\* perPage projects or a single page is the result, otherwise pages
\* 2..totalPages are queued, pageChan is closed and the workers and the
\* closing goroutine are started
ReturnFirstPage ==
    /\ gpPc = "first"
    /\ \E ok \in PageOutcomes :
         IF ~ok
         THEN /\ gpRet' = [status |-> "ret", isNil |-> TRUE, repos |-> <<>>,
                            err |-> "page"]
              /\ gpPc' = "returned"
              /\ fetchFailed' = {1}
              /\ UNCHANGED << pageChan, allRepos, gpStarted >>
         ELSE IF firstPage < perPage \/ totalPages <= 1
         THEN /\ gpRet' = [status |-> "ret", isNil |-> FALSE,
                            repos |-> <<1>>, err |-> "nil"]
              /\ gpPc' = "returned"
              /\ UNCHANGED << pageChan, allRepos, gpStarted, fetchFailed >>
         ELSE /\ pageChan' = [k \in 1..(totalPages - 1) |-> k + 1]
              /\ allRepos' = <<1>>
              /\ gpPc' = "collect"
              /\ gpStarted' = TRUE
              /\ UNCHANGED << gpRet, fetchFailed >>
    /\ UNCHANGED << othersPages, requested, firstPage, selecting >>
    /\ UNCHANGED << totalPages, gpCtxDone, inFlight, pageExited, resultChan,
                    errorChan, resultClosed, errorClosed, collected >>

\* a bug: channels one value too small
Capacity_Short == totalPages - 2

\* make(chan ..., totalPages-1): the values resultChan and errorChan hold
\* before a send blocks
Capacity == totalPages - 1

\* a send returns when the channel has room; a worker blocked in a send
\* has not taken the step that sends
CanSend(chan) == Len(chan) < Capacity

\* a bug: one worker per queued page, without the cap
IdlePageWorkers_PerPage == IF gpStarted THEN Len(pageChan) ELSE 0

\* page workers blocked in their receive on pageChan
IdlePageWorkers ==
    IF gpStarted
    THEN maxWorkers - Cardinality(selecting) - Cardinality(inFlight)
             - pageExited
    ELSE 0

\* a worker receives a page from pageChan
WorkerTakePage ==
    /\ IdlePageWorkers > 0
    /\ pageChan # <<>>
    /\ pageChan' = Tail(pageChan)
    /\ selecting' = selecting \cup {Head(pageChan)}
    /\ UNCHANGED << othersPages, requested, firstPage >>
    /\ UNCHANGED << gpStarted, totalPages,
                    gpPc, gpCtxDone, inFlight, pageExited, resultChan,
                    errorChan, resultClosed,
                    errorClosed, collected, allRepos, gpRet, fetchFailed >>

\* the select of the worker that received page p: with the context done it
\* sends ctx.Err() and returns, otherwise it calls ListGroupProjects
WorkerSelect(p) ==
    /\ p \in selecting
    /\ selecting' = selecting \ {p}
    /\ IF gpCtxDone
       THEN /\ CanSend(errorChan)
            /\ errorChan' = Append(errorChan, "ctx")
            /\ pageExited' = pageExited + 1
            /\ UNCHANGED << inFlight, requested >>
       ELSE /\ inFlight' = inFlight \cup {p}
            /\ requested' = [requested EXCEPT ![p] = @ + 1]
            /\ UNCHANGED << errorChan, pageExited >>
    /\ UNCHANGED << othersPages, firstPage >>
    /\ UNCHANGED << gpStarted, totalPages, pageChan,
                    gpPc, gpCtxDone, resultChan, resultClosed,
                    errorClosed, collected, allRepos, gpRet, fetchFailed >>

\* the call for page p returns: an error is sent and the worker returns, a
\* result is sent and the worker goes on
ReturnPage(p) ==
    /\ p \in inFlight
    /\ inFlight' = inFlight \ {p}
    /\ \E ok \in PageOutcomes :
         IF ok
         THEN /\ CanSend(resultChan)
              /\ resultChan' = Append(resultChan, p)
              /\ UNCHANGED << errorChan, pageExited, fetchFailed >>
         ELSE /\ CanSend(errorChan)
              /\ errorChan' = Append(errorChan, "page")
              /\ pageExited' = pageExited + 1
              /\ fetchFailed' = fetchFailed \cup {p}
              /\ UNCHANGED resultChan
    /\ UNCHANGED << othersPages, requested, firstPage, selecting >>
    /\ UNCHANGED << gpStarted, totalPages,
                    gpPc, gpCtxDone, pageChan, resultClosed,
                    errorClosed, collected, allRepos, gpRet >>

\* a worker finds the closed pageChan drained and returns
PageWorkerExit ==
    /\ IdlePageWorkers > 0
    /\ pageChan = <<>>
    /\ pageExited' = pageExited + 1
    /\ UNCHANGED << othersPages, requested, firstPage, selecting >>
    /\ UNCHANGED << gpStarted, totalPages,
                    gpPc, gpCtxDone, pageChan, inFlight,
                    resultChan, errorChan, resultClosed, errorClosed,
                    collected, allRepos, gpRet, fetchFailed >>

\* the closing goroutine, after wg.Wait()
CloseResultChan ==
    /\ gpStarted
    /\ pageExited = maxWorkers
    /\ ~resultClosed
    /\ resultClosed' = TRUE
    /\ UNCHANGED << othersPages, requested, firstPage, selecting >>
    /\ UNCHANGED << gpStarted, totalPages,
                    gpPc, gpCtxDone, pageChan, inFlight,
                    pageExited, resultChan, errorChan, errorClosed,
                    collected, allRepos, gpRet, fetchFailed >>

CloseErrorChan ==
    /\ resultClosed
    /\ ~errorClosed
    /\ errorClosed' = TRUE
    /\ UNCHANGED << othersPages, requested, firstPage, selecting >>
    /\ UNCHANGED << gpStarted, totalPages,
                    gpPc, gpCtxDone, pageChan, inFlight,
                    pageExited, resultChan, errorChan, resultClosed,
                    collected, allRepos, gpRet, fetchFailed >>

\* the collector is in its loop, at the select
Collecting == gpPc = "collect" /\ collected < totalPages - 1

\* a receive is possible on a channel that holds a value or is closed
CanReceive(chan, closed) == chan # <<>> \/ closed

\* select case <-ctx.Done()
CollectCancelled ==
    /\ Collecting
    /\ gpCtxDone
    /\ gpRet' = [status |-> "ret", isNil |-> TRUE, repos |-> <<>>,
                 err |-> "ctx"]
    /\ gpPc' = "returned"
    /\ UNCHANGED << othersPages, requested, firstPage, selecting >>
    /\ UNCHANGED << gpStarted, totalPages,
                    gpCtxDone, pageChan, inFlight, pageExited,
                    resultChan, errorChan, resultClosed, errorClosed,
                    collected, allRepos, fetchFailed >>

\* select case err := <-errorChan: a closed and drained channel yields nil
CollectError ==
    /\ Collecting
    /\ CanReceive(errorChan, errorClosed)
    /\ gpRet' = [status |-> "ret", isNil |-> TRUE, repos |-> <<>>,
                 err |-> IF errorChan # <<>> THEN Head(errorChan) ELSE "nil"]
    /\ errorChan' = IF errorChan # <<>> THEN Tail(errorChan) ELSE errorChan
    /\ gpPc' = "returned"
    /\ UNCHANGED << othersPages, requested, firstPage, selecting >>
    /\ UNCHANGED << gpStarted, totalPages,
                    gpCtxDone, pageChan, inFlight, pageExited,
                    resultChan, resultClosed, errorClosed,
                    collected, allRepos, fetchFailed >>

\* select case repos := <-resultChan: a closed and drained channel yields
\* a nil list
CollectResult ==
    /\ Collecting
    /\ CanReceive(resultChan, resultClosed)
    /\ allRepos' = IF resultChan # <<>>
                   THEN Append(allRepos, Head(resultChan)) ELSE allRepos
    /\ resultChan' = IF resultChan # <<>> THEN Tail(resultChan) ELSE resultChan
    /\ collected' = collected + 1
    /\ UNCHANGED << othersPages, requested, firstPage, selecting >>
    /\ UNCHANGED << gpStarted, totalPages,
                    gpPc, gpCtxDone, pageChan, inFlight,
                    pageExited, errorChan, resultClosed, errorClosed,
                    gpRet, fetchFailed >>

\* after the loop
CollectReturn ==
    /\ gpPc = "collect"
    /\ collected = totalPages - 1
    /\ gpRet' = [status |-> "ret", isNil |-> FALSE, repos |-> allRepos,
                 err |-> "nil"]
    /\ gpPc' = "returned"
    /\ UNCHANGED << othersPages, requested, firstPage, selecting >>
    /\ UNCHANGED << gpStarted, totalPages,
                    gpCtxDone, pageChan, inFlight, pageExited,
                    resultChan, errorChan, resultClosed, errorClosed,
                    collected, allRepos, fetchFailed >>

NextPages ==
    \/ CancelPages
    \/ ReturnFirstPage
    \/ WorkerTakePage
    \/ \E p \in selecting : WorkerSelect(p)
    \/ \E p \in inFlight : ReturnPage(p)
    \/ PageWorkerExit
    \/ CloseResultChan
    \/ CloseErrorChan
    \/ CollectCancelled
    \/ CollectError
    \/ CollectResult
    \/ CollectReturn

(***************************************************************************)
(* Client.GetRepositoriesList, as a call of its own                        *)
(***************************************************************************)
InitClient ==
    /\ repoURL \in SourceURLs
    /\ grPc = "start"
    /\ grPath = <<>>
    /\ remoteCalls = <<>>
    /\ grRet = [status |-> "none"]

\* no GetRepositoriesList call
IdleClient ==
    /\ repoURL = <<>>
    /\ grPc = "returned"
    /\ grPath = <<>>
    /\ remoteCalls = <<>>
    /\ grRet = [status |-> "none"]

\* the path is extracted: an error is returned, otherwise Groups.GetGroup
\* is called with the path
CallExtractProjectPath ==
    /\ grPc = "start"
    /\ LET r == ClientExtractProjectPath(repoURL) IN
         IF ~r.ok
         THEN /\ grRet' = [status |-> "ret", isNil |-> TRUE,
                           err |-> ExtractPathError(repoURL, r.err)]
              /\ grPc' = "returned"
              /\ UNCHANGED << grPath, remoteCalls >>
         ELSE /\ grPath' = r.path
              /\ remoteCalls' = Append(remoteCalls, "GetGroup")
              /\ grPc' = "GetGroup"
              /\ UNCHANGED grRet
    /\ UNCHANGED othersClient
    /\ UNCHANGED repoURL

\* GetGroup returns: for a group getGroupProjects is called, after any
\* error Projects.GetProject is called with the path
ReturnGetGroup ==
    /\ grPc = "GetGroup"
    /\ \E ok \in BOOLEAN :
         IF ok
         THEN /\ grPc' = "getGroupProjects"
              /\ remoteCalls' = Append(remoteCalls, "ListGroupProjects")
         ELSE /\ grPc' = "GetProject"
              /\ remoteCalls' = Append(remoteCalls, "GetProject")
    /\ UNCHANGED othersClient
    /\ UNCHANGED << repoURL, grPath, grRet >>

\* getGroupProjects returns and its result is returned: a list, an error,
\* or neither when the collector received from the closed errorChan
ReturnGetGroupProjects ==
    /\ grPc = "getGroupProjects"
    /\ \/ grRet' = [status |-> "ret", isNil |-> FALSE, err |-> <<>>]
       \/ grRet' = [status |-> "ret", isNil |-> TRUE, err |-> <<>>]
       \/ \E e \in GroupProjectsErrors(<<"500 Internal Server Error">>)
                     \cup { ContextError } :
            grRet' = [status |-> "ret", isNil |-> TRUE, err |-> e]
    /\ grPc' = "returned"
    /\ UNCHANGED othersClient
    /\ UNCHANGED << repoURL, grPath, remoteCalls >>

\* GetProject returns: the repository, or the wrapped error
ReturnGetProject ==
    /\ grPc = "GetProject"
    /\ \E ok \in BOOLEAN :
         grRet' = IF ok
                  THEN [status |-> "ret", isNil |-> FALSE, err |-> <<>>]
                  ELSE [status |-> "ret", isNil |-> TRUE,
                        err |-> ProjectOrGroupError(grPath,
                                    <<"404 Not Found">>)]
    /\ grPc' = "returned"
    /\ UNCHANGED othersClient
    /\ UNCHANGED << repoURL, grPath, remoteCalls >>

NextClient ==
    \/ CallExtractProjectPath
    \/ ReturnGetGroup
    \/ ReturnGetGroupProjects
    \/ ReturnGetProject

(***************************************************************************)
(* Scanner.DetectProjects.  A file path is the sequence of its segments,   *)
(* the last one being the file name; a file name and a language tag are    *)
(* strings of runes; other strings are sequences of tokens.                *)
(***************************************************************************)
\* the paths a repository tree is made of
TreePaths ==
    { <<"go.mod">>, <<"go.sum">>, <<"README.md">>,
      <<"backend", "package.json">>, <<"backend", "go.mod">>,
      <<"root", "go.mod">> }

\* the file lists GetFilesList returns: distinct paths in any order
FileLists ==
    { l \in UNION { [1..n -> TreePaths] : n \in 0..MaxFiles } :
        \A a, b \in 1..Len(l) : l[a] = l[b] => a = b }

\* the repository DetectProjects is called with
ScannedRepo == [ID |-> "7", Name |-> "svc"]

SupportedFileTypes ==
    { "go.mod", "go.sum", "package.json", "package-lock.json", "yarn.lock",
      "pom.xml", "build.gradle", "gradle.lockfile", "requirements.txt",
      "Pipfile", "poetry.lock", "uv.lock", "setup.py" }

\* filepath.Base: the last segment, trailing separators aside.  A path is
\* the sequence of its segments; the root is the segment "/" and an empty
\* segment stands for a separator that follows a separator or ends the path
RECURSIVE Base(_)
Base(path) ==
    IF path = <<>> THEN "."
    ELSE IF path[Len(path)] = "" THEN Base(SubSeq(path, 1, Len(path) - 1))
    ELSE path[Len(path)]

\* the segments filepath.Clean keeps of the segments after the root, added
\* to the segments out it has kept so far: an empty segment and "." are
\* dropped, ".." takes the segment before it away, and a ".." with nothing
\* before it is dropped below the root and kept otherwise
RECURSIVE Lexical(_, _, _)
Lexical(out, segments, rooted) ==
    IF segments = <<>> THEN out
    ELSE LET s == Head(segments)
             rest == Tail(segments)
         IN  IF s = "" \/ s = "." THEN Lexical(out, rest, rooted)
             ELSE IF s # ".." THEN Lexical(Append(out, s), rest, rooted)
             ELSE IF out # <<>> /\ out[Len(out)] # ".."
             THEN Lexical(SubSeq(out, 1, Len(out) - 1), rest, rooted)
             ELSE IF rooted THEN Lexical(out, rest, rooted)
             ELSE Lexical(Append(out, s), rest, rooted)

\* the segments filepath.Clean keeps: none for the path "."
Clean(segments) ==
    IF segments # <<>> /\ Head(segments) = "/"
    THEN <<"/">> \o Lexical(<<>>, Tail(segments), TRUE)
    ELSE Lexical(<<>>, segments, FALSE)

\* segments joined by the separator; the root is followed by none
RECURSIVE Join(_)
Join(segments) ==
    IF Len(segments) <= 1 THEN segments
    ELSE IF Head(segments) = "/" THEN <<"/">> \o Join(Tail(segments))
    ELSE <<Head(segments), "/">> \o Join(Tail(segments))

\* filepath.Dir: the cleaned path without its last segment, "." if empty
Dir(path) ==
    LET d == Clean(IF path = <<"/">> THEN path
                   ELSE SubSeq(path, 1, Len(path) - 1))
    IN  IF d = <<>> THEN <<".">> ELSE Join(d)

\* the upper-case letters of ASCII and Latin-1 and, at the same positions,
\* their lower-case forms
UpperCase == "ABCDEFGHIJKLMNOPQRSTUVWXYZÀÁÂÃÄÅÆÇÈÉÊËÌÍÎÏÐÑÒÓÔÕÖØÙÚÛÜÝÞ"
LowerCase == "abcdefghijklmnopqrstuvwxyzàáâãäåæçèéêëìíîïðñòóôõöøùúûüýþ"

\* the runes of ASCII and Latin-1 that have neither an upper-case nor a
\* lower-case form
Caseless ==
    " !\"#$%&'()*+,-./0123456789:;<=>?@[\\]^_{|}~¡¢£¤¥¦"
    \o "§¨©ª«¬®¯°±²³´¶·¸¹º»¼½¾¿×ß÷"

\* the position of the rune r in the string letters, 0 if it is not there
RECURSIVE Position(_, _)
Position(r, letters) ==
    IF letters = "" THEN 0
    ELSE IF SubSeq(letters, Len(letters), Len(letters)) = r THEN Len(letters)
    ELSE Position(r, SubSeq(letters, 1, Len(letters) - 1))

\* the runes of a string
Runes(s) == { SubSeq(s, i, i) : i \in 1..Len(s) }

\* unicode.ToLower on the runes of ASCII and Latin-1: an upper-case letter
\* gives its lower-case form, every other rune itself
LowerOf ==
    [r \in Runes(UpperCase \o LowerCase \o Caseless \o "µÿ") |->
        IF r \in Runes(UpperCase)
        THEN SubSeq(LowerCase, Position(r, UpperCase), Position(r, UpperCase))
        ELSE r]

\* unicode.ToUpper on the runes of ASCII and Latin-1 but ÿ, whose
\* upper-case form is no rune of a string here: a lower-case letter gives
\* its upper-case form, the micro sign the Greek capital mu, every other
\* rune itself
UpperOf ==
    [r \in Runes(UpperCase \o LowerCase \o Caseless \o "µ") |->
        IF r \in Runes(LowerCase)
        THEN SubSeq(UpperCase, Position(r, LowerCase), Position(r, LowerCase))
        ELSE IF r = "µ" THEN "Μ"
        ELSE r]

\* unicode.ToLower of a rune
ToLowerRune(r) == LowerOf[r]

\* unicode.ToUpper of a rune
ToUpperRune(r) == UpperOf[r]

\* strings.ToLower: every rune of the string lowered
RECURSIVE ToLower(_)
ToLower(name) ==
    IF name = "" THEN ""
    ELSE ToLowerRune(Head(name)) \o ToLower(Tail(name))

\* Scanner.filterDependencyFiles
FilterDependencyFiles(list) ==
    SelectSeq(list, LAMBDA file : Base(file) \in SupportedFileTypes)

\* Scanner.DetectLanguageFromFile
DetectLanguageFromFile(filePath) ==
    LET fileName == ToLower(Base(filePath))
    IN  CASE fileName \in {"go.mod", "go.sum"} -> "go"
          [] fileName \in {"package.json", "package-lock.json", "yarn.lock"}
               -> "nodejs"
          [] fileName \in {"pom.xml", "build.gradle", "gradle.lockfile"}
               -> "java"
          [] fileName \in {"requirements.txt", "pipfile", "poetry.lock",
                           "uv.lock", "setup.py"} -> "python"
          [] OTHER -> "unknown"

\* Scanner.ExtractProjectPath: the directory, empty for the root
ScannerExtractProjectPath(filePath) ==
    LET dir == Dir(filePath)
    IN  IF dir = <<".">> \/ dir = <<"/">> THEN <<>> ELSE dir

\* a bug: the key is the directory alone
GroupKey_PathOnly(language, projectPath) == projectPath

\* the key of a group: fmt.Sprintf("%s:%s", language, projectPath)
GroupKey(language, projectPath) == <<language, ":">> \o projectPath

\* the map of no entries
EmptyMap == [key \in {} |-> key]

\* Scanner.groupDependencyFilesByProject: the map after the loop over the
\* files
RECURSIVE GroupDependencyFilesByProject(_, _)
GroupDependencyFilesByProject(list, map) ==
    IF list = <<>> THEN map
    ELSE LET file == Head(list)
             language == DetectLanguageFromFile(file)
             projectPath == ScannerExtractProjectPath(file)
             groupKey == GroupKey(language, projectPath)
         IN  GroupDependencyFilesByProject(Tail(list),
               IF groupKey \in DOMAIN map
               THEN [map EXCEPT ![groupKey].files = Append(@, file)]
               ELSE [key \in DOMAIN map \cup {groupKey} |->
                       IF key = groupKey
                       THEN [language |-> language, path |-> projectPath,
                             files |-> <<file>>]
                       ELSE map[key]])

\* CapitalizeFirst: the string with its first rune in upper case
CapitalizeFirst(s) ==
    IF s = "" THEN s
    ELSE ToUpperRune(Head(s)) \o Tail(s)

\* a bug: the ID numbers the projects in the order of their creation
ProjectID_Numbered(repo, g) ==
    <<"repo", "-", repo.ID, "-", ToString(Len(projects) + 1)>>

\* createProjectFromGroup: the project ID
ProjectID(repo, g) ==
    IF g.path = <<>>
    THEN <<"repo", "-", repo.ID, "-", "root", "-", g.language>>
    ELSE <<"repo", "-", repo.ID, "-">> \o g.path \o <<"-", g.language>>

\* createProjectFromGroup: the project name
ProjectName(repo, g) ==
    IF g.path # <<>>
    THEN <<repo.Name, " ", CapitalizeFirst(g.language), " ", "(">>
             \o g.path \o <<")">>
    ELSE <<repo.Name, " ", CapitalizeFirst(g.language)>>

\* createProjectFromGroup: the project it returns
NewProject(repo, g, fileList) ==
    [ ID |-> ProjectID(repo, g),
      Name |-> ProjectName(repo, g),
      Path |-> g.path,
      Language |-> g.language,
      DependencyFiles |-> fileList,
      Dependencies |-> <<>> ]

\* no group
NoGroup == [language |-> "", path |-> <<>>, files |-> <<>>]

\* the state of a DetectProjects call before GetFilesList returns
StartDetectProjectsCall ==
    /\ scPc = "GetFilesList"
    /\ listFailed = FALSE
    /\ dependencyFiles = <<>>
    /\ projectMap = EmptyMap
    /\ pending = {}
    /\ group = NoGroup
    /\ fetched = 0
    /\ groupFiles = <<>>
    /\ projects = <<>>
    /\ scRet = [status |-> "none"]

InitScanner ==
    /\ files \in FileLists
    /\ failing \in SUBSET { files[k] : k \in 1..Len(files) }
    /\ run = 1
    /\ firstRet = [status |-> "none"]
    /\ StartDetectProjectsCall

\* no DetectProjects call
IdleScanner ==
    /\ files = <<>>
    /\ failing = {}
    /\ run = 1
    /\ firstRet = [status |-> "none"]
    /\ scPc = "returned"
    /\ listFailed = FALSE
    /\ dependencyFiles = <<>>
    /\ projectMap = EmptyMap
    /\ pending = {}
    /\ group = NoGroup
    /\ fetched = 0
    /\ groupFiles = <<>>
    /\ projects = <<>>
    /\ scRet = [status |-> "none"]

\* a bug: the error of GetFilesList is dropped
FilesListError_Dropped(repo, cause) == <<>>

\* the wrapped error DetectProjects returns when GetFilesList fails
FilesListError(repo, cause) ==
    <<"failed to get files list for repository ", repo.Name, ": ">> \o cause

\* a bug: a project without files is kept
KeepProject_Always(project) == TRUE

\* only a project with at least one dependency file is added
KeepProject(project) == Len(project.DependencyFiles) > 0

\* GetFilesList returns: an error is returned wrapped; a list without
\* dependency files gives the empty result; otherwise the files are grouped
ReturnGetFilesList ==
    /\ scPc = "GetFilesList"
    /\ \E ok \in BOOLEAN :
         IF ~ok
         THEN /\ listFailed' = TRUE
              /\ scRet' = [status |-> "ret", isNil |-> TRUE,
                           projects |-> <<>>,
                           err |-> FilesListError(ScannedRepo,
                                       <<"500 Internal Server Error">>)]
              /\ scPc' = "returned"
              /\ UNCHANGED << dependencyFiles, projectMap, pending >>
         ELSE LET filtered == FilterDependencyFiles(files)
                  map == GroupDependencyFilesByProject(filtered, EmptyMap)
              IN  /\ dependencyFiles' = filtered
                  /\ UNCHANGED listFailed
                  /\ IF Len(filtered) = 0
                     THEN /\ scRet' = [status |-> "ret", isNil |-> FALSE,
                                       projects |-> <<>>, err |-> <<>>]
                          /\ scPc' = "returned"
                          /\ UNCHANGED << projectMap, pending >>
                     ELSE /\ projectMap' = map
                          /\ pending' = DOMAIN map
                          /\ scPc' = "groups"
                          /\ UNCHANGED scRet
    /\ UNCHANGED othersScanner
    /\ UNCHANGED << files, failing, run, group, fetched, groupFiles,
                    projects, firstRet >>

\* the range over projectMap gives its next group, in any order, and
\* createProjectFromGroup is called with it
NextGroup ==
    /\ scPc = "groups"
    /\ \E key \in pending :
         /\ group' = projectMap[key]
         /\ pending' = pending \ {key}
    /\ fetched' = 0
    /\ groupFiles' = <<>>
    /\ scPc' = "GetFileContent"
    /\ UNCHANGED othersScanner
    /\ UNCHANGED << files, failing, run, listFailed, dependencyFiles,
                    projectMap, projects, scRet, firstRet >>

\* GetFileContent returns for the next file of the group: after an error
\* the file is skipped; after the last file createProjectFromGroup returns
\* its project, which is added if it has files
ReturnGetFileContent ==
    /\ scPc = "GetFileContent"
    /\ LET file == group.files[fetched + 1]
           fileList == IF file \in failing
                       THEN groupFiles
                       ELSE Append(groupFiles,
                              [Path |-> file, Language |-> group.language])
           project == NewProject(ScannedRepo, group, fileList)
       IN  IF fetched + 1 < Len(group.files)
           THEN /\ fetched' = fetched + 1
                /\ groupFiles' = fileList
                /\ UNCHANGED << scPc, projects >>
           ELSE /\ fetched' = 0
                /\ groupFiles' = <<>>
                /\ projects' = IF KeepProject(project)
                               THEN Append(projects, project) ELSE projects
                /\ scPc' = "groups"
    /\ UNCHANGED othersScanner
    /\ UNCHANGED << files, failing, run, listFailed, dependencyFiles,
                    projectMap, pending, group, scRet, firstRet >>

\* after the last group DetectProjects returns its projects: a nil slice
\* when none was added
DetectProjectsReturn ==
    /\ scPc = "groups"
    /\ pending = {}
    /\ scRet' = [status |-> "ret", isNil |-> projects = <<>>,
                 projects |-> projects, err |-> <<>>]
    /\ scPc' = "returned"
    /\ UNCHANGED othersScanner
    /\ UNCHANGED << files, failing, run, listFailed, dependencyFiles,
                    projectMap, pending, group, fetched, groupFiles,
                    projects, firstRet >>

\* the orders in which the files of a list can be listed
Reorderings(list) ==
    { l \in [1..Len(list) -> { list[k] : k \in 1..Len(list) }] :
        \A a, b \in 1..Len(l) : l[a] = l[b] => a = b }

\* DetectProjects is called a second time for the repository, whose files
\* are listed in any order and whose fetches have the same outcomes
DetectProjectsAgain ==
    /\ run = 1
    /\ scPc = "returned"
    /\ scRet.err = <<>>
    /\ run' = 2
    /\ firstRet' = scRet
    /\ files' \in Reorderings(files)
    /\ scPc' = "GetFilesList"
    /\ listFailed' = FALSE
    /\ dependencyFiles' = <<>>
    /\ projectMap' = EmptyMap
    /\ pending' = {}
    /\ group' = NoGroup
    /\ fetched' = 0
    /\ groupFiles' = <<>>
    /\ projects' = <<>>
    /\ scRet' = [status |-> "none"]
    /\ UNCHANGED othersScanner
    /\ UNCHANGED failing

NextScanner ==
    \/ ReturnGetFilesList
    \/ NextGroup
    \/ ReturnGetFileContent
    \/ DetectProjectsReturn
    \/ DetectProjectsAgain

\* no getGroupProjects call
IdlePages ==
    /\ totalPages = 1
    /\ firstPage = 0
    /\ gpPc = "returned"
    /\ gpStarted = FALSE
    /\ gpCtxDone = FALSE
    /\ pageChan = <<>>
    /\ inFlight = {}
    /\ selecting = {}
    /\ pageExited = 0
    /\ resultChan = <<>>
    /\ errorChan = <<>>
    /\ resultClosed = FALSE
    /\ errorClosed = FALSE
    /\ collected = 0
    /\ allRepos = <<>>
    /\ gpRet = [status |-> "none"]
    /\ fetchFailed = {}
    /\ requested = <<0>>

\* no Execute call
IdleExec ==
    /\ repositoryURLs = <<>>
    /\ pc = "done"
    /\ ctxDone = FALSE
    /\ urlTask = <<>>
    /\ errChan = <<>>
    /\ repositories = <<>>
    /\ scanTask = <<>>
    /\ scanFailed = {}
    /\ scanCancelled = {}
    /\ allProjects = <<>>
    /\ projectChan = <<>>
    /\ projSent = 0
    /\ projChanClosed = FALSE
    /\ projWorkersExited = 0
    /\ pp = <<>>
    /\ totalDependencies = 0
    /\ internalCount = 0
    /\ externalCount = 0
    /\ errors = 0
    /\ genCalls = 0
    /\ genArg = <<>>
    /\ genFailed = FALSE
    /\ held = {}
    /\ seen = {}
    /\ response = [status |-> "none"]

(***************************************************************************)
(* The classifier (internal/classifier)                                    *)
(*                                                                         *)
(* A string is the sequence of its characters; a token longer than one     *)
(* character stands for a run of characters other than "/", "." and "*".   *)
(***************************************************************************)
\* the strings of at most n characters of a set
Strings(chars, n) == UNION { [1..k -> chars] : k \in 0..n }

NameChars == {"a", "b", "/", "."}

PatternChars == {"a", "/", ".", "*"}

\* the names and patterns of the documented scenarios
CompanyDash == <<"company", "-">>

CompanySlash == <<"@company", "/">>

CompanyGlob == <<"github", ".", "com", "/", "company", "/", "*">>

CompanyUtils == <<"company", "-", "utils">>

MyCompanyUtils == <<"my", "-", "company", "-", "utils">>

UiComponents == <<"@company", "/", "ui-components">>

AngularCore == <<"@angular", "/", "core">>

UserService == <<"github", ".", "com", "/", "company", "/", "user-service">>

Gin == <<"github", ".", "com", "/", "gin-gonic", "/", "gin">>

\* a *domain.Dependency: nil, or a name and the internal flag
Dep(name, flag) == [isNil |-> FALSE, Name |-> name, IsInternal |-> flag]

NilDep == [isNil |-> TRUE, Name |-> <<>>, IsInternal |-> FALSE]

\* a []*domain.Dependency: nil, or its elements
List(items) == [isNil |-> FALSE, items |-> items]

NilList == [isNil |-> TRUE, items |-> <<>>]

\* the rulesets and the elements of the lists
Rulesets ==
    { <<>>, <<CompanyDash>>, <<CompanySlash, CompanyGlob>>,
      <<CompanyGlob, CompanyDash>> }

Elements ==
    { NilDep, Dep(<<>>, FALSE), Dep(CompanyUtils, FALSE),
      Dep(MyCompanyUtils, TRUE), Dep(UiComponents, FALSE),
      Dep(AngularCore, TRUE), Dep(UserService, FALSE), Dep(Gin, FALSE) }

\* strings.HasPrefix, strings.HasSuffix
HasPrefix(str, prefix) ==
    Len(prefix) <= Len(str) /\ SubSeq(str, 1, Len(prefix)) = prefix

HasSuffix(str, suffix) ==
    /\ Len(suffix) <= Len(str)
    /\ SubSeq(str, Len(str) - Len(suffix) + 1, Len(str)) = suffix

\* strings.Contains
StringsContains(str, substr) ==
    \E o \in 0..(Len(str) - Len(substr)) :
        SubSeq(str, o + 1, o + Len(substr)) = substr

\* filepath.Match for patterns of literals, "*" and "?": "*" matches any
\* run of characters other than the separator, "?" one such character
RECURSIVE Match(_, _)
Match(pattern, name) ==
    IF pattern = <<>> THEN name = <<>>
    ELSE IF Head(pattern) = "*"
    THEN \E k \in 0..Len(name) :
            /\ \A o \in 1..k : name[o] # "/"
            /\ Match(Tail(pattern), SubSeq(name, k + 1, Len(name)))
    ELSE IF Head(pattern) = "?"
    THEN name # <<>> /\ Head(name) # "/" /\ Match(Tail(pattern), Tail(name))
    ELSE name # <<>> /\ Head(name) = Head(pattern)
            /\ Match(Tail(pattern), Tail(name))

matchesWildcardPattern(name, pattern) ==
    IF ~StringsContains(pattern, <<"*">>) THEN FALSE
    ELSE Match(pattern, name)

matchesPrefixPattern(name, pattern) ==
    IF ~HasSuffix(pattern, <<"/">>) /\ ~HasSuffix(pattern, <<".">>)
    THEN FALSE
    ELSE HasPrefix(name, TrimSuffix(TrimSuffix(pattern, "/"), "."))

matchesSuffixPattern(name, pattern) ==
    IF ~HasPrefix(pattern, <<"/">>) /\ ~HasPrefix(pattern, <<".">>)
    THEN FALSE
    ELSE HasSuffix(name, TrimPrefix(TrimPrefix(pattern, "/"), "."))

matchesContainsPattern(name, pattern) ==
    LET hasSpecialChars ==
            \/ StringsContains(pattern, <<"*">>)
            \/ HasSuffix(pattern, <<"/">>)
            \/ HasSuffix(pattern, <<".">>)
            \/ HasPrefix(pattern, <<"/">>)
            \/ HasPrefix(pattern, <<".">>)
    IN  ~hasSpecialChars /\ StringsContains(name, pattern)

matchesPattern(name, pattern) ==
    \/ name = pattern
    \/ matchesWildcardPattern(name, pattern)
    \/ matchesPrefixPattern(name, pattern)
    \/ matchesSuffixPattern(name, pattern)
    \/ matchesContainsPattern(name, pattern)

\* a bug: the name is not checked for being empty
IsInternal_AnyName(patterns, dependency) ==
    /\ ~dependency.isNil
    /\ \E k \in 1..Len(patterns) : matchesPattern(dependency.Name, patterns[k])

IsInternal(patterns, dependency) ==
    IF dependency.isNil \/ dependency.Name = <<>> THEN FALSE
    ELSE \E k \in 1..Len(patterns) :
            matchesPattern(dependency.Name, patterns[k])

\* a bug: a dependency that is flagged internal stays so
Classified_Or(patterns, dep) ==
    [dep EXCEPT !.IsInternal = dep.IsInternal \/ IsInternal(patterns, dep)]

\* the loop body of ClassifyDependencies for a non-nil element
Classified(patterns, dep) ==
    [dep EXCEPT !.IsInternal = IsInternal(patterns, dep)]

\* a bug: the loop ends at the first nil element
AfterNilDep_Break(idx, list) == Len(list) + 1

\* where the loop goes on after a nil element
AfterNilDep(idx, list) == idx + 1

StartClassifyDependencies ==
    /\ clPc = "call"
    /\ clIdx = 1
    /\ clRet = [status |-> "none"]

InitClassifier ==
    /\ \/ /\ internalPatterns \in
                { <<p>> : p \in Strings(PatternChars, MaxNameLen) }
          /\ dependencies \in
                { List(<<Dep(n, FALSE)>>) : n \in Strings(NameChars, MaxNameLen) }
       \/ /\ internalPatterns \in Rulesets
          /\ dependencies \in
                {NilList} \cup
                { List(l) : l \in UNION { [1..n -> Elements] : n \in 0..MaxDeps } }
    /\ clRun = 1
    /\ clFirst = NilList
    /\ clArg = dependencies
    /\ StartClassifyDependencies

\* no ClassifyDependencies call
IdleClassifier ==
    /\ internalPatterns = <<>>
    /\ dependencies = NilList
    /\ clRun = 1
    /\ clFirst = NilList
    /\ clArg = NilList
    /\ clPc = "returned"
    /\ clIdx = 1
    /\ clRet = [status |-> "none"]

\* ClassifyDependencies: the list is nil
ReturnNil ==
    /\ clPc = "call"
    /\ dependencies.isNil
    /\ clRet' = [status |-> "ret", list |-> NilList, err |-> <<>>]
    /\ clPc' = "returned"
    /\ UNCHANGED << internalPatterns, dependencies, clRun, clIdx, clFirst,
                    clArg >>
    /\ UNCHANGED othersClassifier

\* one iteration of the loop over a non-nil element
ClassifyElement ==
    /\ clPc = "call"
    /\ ~dependencies.isNil
    /\ clIdx <= Len(dependencies.items)
    /\ ~dependencies.items[clIdx].isNil
    /\ dependencies' =
         [dependencies EXCEPT !.items[clIdx] =
             Classified(internalPatterns, dependencies.items[clIdx])]
    /\ clIdx' = clIdx + 1
    /\ UNCHANGED << internalPatterns, clRun, clPc, clRet, clFirst, clArg >>
    /\ UNCHANGED othersClassifier

\* one iteration of the loop over a nil element
SkipNilElement ==
    /\ clPc = "call"
    /\ ~dependencies.isNil
    /\ clIdx <= Len(dependencies.items)
    /\ dependencies.items[clIdx].isNil
    /\ clIdx' = AfterNilDep(clIdx, dependencies.items)
    /\ UNCHANGED << internalPatterns, dependencies, clRun, clPc, clRet,
                    clFirst, clArg >>
    /\ UNCHANGED othersClassifier

\* the loop is over: the list itself is returned
ReturnDependencies ==
    /\ clPc = "call"
    /\ ~dependencies.isNil
    /\ clIdx > Len(dependencies.items)
    /\ clRet' = [status |-> "ret", list |-> dependencies, err |-> <<>>]
    /\ clPc' = "returned"
    /\ UNCHANGED << internalPatterns, dependencies, clRun, clIdx, clFirst,
                    clArg >>
    /\ UNCHANGED othersClassifier

\* the caller classifies the returned list again
ClassifyAgain ==
    /\ clPc = "returned"
    /\ clRun = 1
    /\ clRet.status = "ret"
    /\ clRun' = 2
    /\ clFirst' = clRet.list
    /\ clArg' = clRet.list
    /\ dependencies' = clRet.list
    /\ clPc' = "call"
    /\ clIdx' = 1
    /\ clRet' = [status |-> "none"]
    /\ UNCHANGED internalPatterns
    /\ UNCHANGED othersClassifier

NextClassifier ==
    \/ ReturnNil
    \/ ClassifyElement
    \/ SkipNilElement
    \/ ReturnDependencies
    \/ ClassifyAgain

(***************************************************************************)
(* The logger (internal/logger)                                            *)
(***************************************************************************)
\* the nil pointer; the zap loggers are numbered from 1
Nil == 0

Levels == {"debug", "warn"}

\* no instance, and an instance
NoInstance == [isNil |-> TRUE, atomicLevel |-> "info", logger |-> Nil]

Instance(level, logger) ==
    [isNil |-> FALSE, atomicLevel |-> level, logger |-> logger]

InitLogger ==
    /\ lgThreads = 1..LoggerThreads
    /\ lgPc = [t \in lgThreads |-> "idle"]
    /\ lgLevel = [t \in lgThreads |-> "info"]
    /\ lgCalls = [t \in lgThreads |-> 0]
    /\ once = "new"
    /\ instance = NoInstance
    /\ readers = {}
    /\ writer = {}
    /\ zapNew = 0
    /\ lgReturned = {}

\* no goroutine uses the logger package
IdleLogger ==
    /\ lgThreads = {}
    /\ lgPc = <<>>
    /\ lgLevel = <<>>
    /\ lgCalls = <<>>
    /\ once = "new"
    /\ instance = NoInstance
    /\ readers = {}
    /\ writer = {}
    /\ zapNew = 0
    /\ lgReturned = {}

\* a goroutine calls GetLogger
CallGetLogger(t) ==
    /\ lgPc[t] = "idle"
    /\ lgCalls[t] < MaxLoggerCalls
    /\ lgPc' = [lgPc EXCEPT ![t] = "GetLogger.once"]
    /\ lgCalls' = [lgCalls EXCEPT ![t] = @ + 1]
    /\ UNCHANGED << lgThreads, lgLevel, once, instance, readers, writer,
                    zapNew, lgReturned >>
    /\ UNCHANGED othersLogger

\* a goroutine calls SetLevel
CallSetLevel(t, level) ==
    /\ lgPc[t] = "idle"
    /\ lgCalls[t] < MaxLoggerCalls
    /\ lgPc' = [lgPc EXCEPT ![t] = "SetLevel.once"]
    /\ lgLevel' = [lgLevel EXCEPT ![t] = level]
    /\ lgCalls' = [lgCalls EXCEPT ![t] = @ + 1]
    /\ UNCHANGED << lgThreads, once, instance, readers, writer, zapNew,
                    lgReturned >>
    /\ UNCHANGED othersLogger

\* once.Do of GetLogger is the first: it runs the function
GetLoggerOnceBegin(t) ==
    /\ lgPc[t] = "GetLogger.once"
    /\ once = "new"
    /\ once' = "running"
    /\ lgPc' = [lgPc EXCEPT ![t] = "GetLogger.init"]
    /\ UNCHANGED << lgThreads, lgLevel, lgCalls, instance, readers, writer,
                    zapNew, lgReturned >>
    /\ UNCHANGED othersLogger

\* the function of GetLogger: the instance and its zap logger
GetLoggerOnceEnd(t) ==
    /\ lgPc[t] = "GetLogger.init"
    /\ zapNew' = zapNew + 1
    /\ instance' = Instance("info", zapNew + 1)
    /\ once' = "done"
    /\ lgPc' = [lgPc EXCEPT ![t] = "GetLogger.lock"]
    /\ UNCHANGED << lgThreads, lgLevel, lgCalls, readers, writer,
                    lgReturned >>
    /\ UNCHANGED othersLogger

\* once.Do of SetLevel is the first: it runs the function
SetLevelOnceBegin(t) ==
    /\ lgPc[t] = "SetLevel.once"
    /\ once = "new"
    /\ once' = "running"
    /\ lgPc' = [lgPc EXCEPT ![t] = "SetLevel.init"]
    /\ UNCHANGED << lgThreads, lgLevel, lgCalls, instance, readers, writer,
                    zapNew, lgReturned >>
    /\ UNCHANGED othersLogger

\* the function of SetLevel: the instance, without a zap logger
SetLevelOnceEnd(t) ==
    /\ lgPc[t] = "SetLevel.init"
    /\ instance' = Instance("info", Nil)
    /\ once' = "done"
    /\ lgPc' = [lgPc EXCEPT ![t] = "SetLevel.lock"]
    /\ UNCHANGED << lgThreads, lgLevel, lgCalls, readers, writer, zapNew,
                    lgReturned >>
    /\ UNCHANGED othersLogger

\* once.Do after the function has run: it returns at once
OnceSkip(t) ==
    /\ lgPc[t] \in {"GetLogger.once", "SetLevel.once"}
    /\ once = "done"
    /\ lgPc' = [lgPc EXCEPT ![t] = IF lgPc[t] = "GetLogger.once"
                                   THEN "GetLogger.lock"
                                   ELSE "SetLevel.lock"]
    /\ UNCHANGED << lgThreads, lgLevel, lgCalls, once, instance, readers,
                    writer, zapNew, lgReturned >>
    /\ UNCHANGED othersLogger

\* instance.mu.RLock()
RLock(t) ==
    /\ lgPc[t] = "GetLogger.lock"
    /\ writer = {}
    /\ readers' = readers \cup {t}
    /\ lgPc' = [lgPc EXCEPT ![t] = "GetLogger.return"]
    /\ UNCHANGED << lgThreads, lgLevel, lgCalls, once, instance, writer,
                    zapNew, lgReturned >>
    /\ UNCHANGED othersLogger

\* return instance.logger, and the deferred RUnlock
ReturnLogger(t) ==
    /\ lgPc[t] = "GetLogger.return"
    /\ lgReturned' = lgReturned \cup {instance.logger}
    /\ readers' = readers \ {t}
    /\ lgPc' = [lgPc EXCEPT ![t] = "idle"]
    /\ UNCHANGED << lgThreads, lgLevel, lgCalls, once, instance, writer,
                    zapNew >>
    /\ UNCHANGED othersLogger

\* instance.mu.Lock()
WLock(t) ==
    /\ lgPc[t] = "SetLevel.lock"
    /\ writer = {}
    /\ readers = {}
    /\ writer' = {t}
    /\ lgPc' = [lgPc EXCEPT ![t] = "SetLevel.set"]
    /\ UNCHANGED << lgThreads, lgLevel, lgCalls, once, instance, readers,
                    zapNew, lgReturned >>
    /\ UNCHANGED othersLogger

\* instance.atomicLevel.SetLevel(level), and the deferred Unlock
StoreLevel(t) ==
    /\ lgPc[t] = "SetLevel.set"
    /\ instance' = [instance EXCEPT !.atomicLevel = lgLevel[t]]
    /\ writer' = {}
    /\ lgPc' = [lgPc EXCEPT ![t] = "idle"]
    /\ UNCHANGED << lgThreads, lgLevel, lgCalls, once, readers, zapNew,
                    lgReturned >>
    /\ UNCHANGED othersLogger

NextLogger ==
    \/ \E t \in lgThreads : CallGetLogger(t)
    \/ \E t \in lgThreads : \E level \in Levels : CallSetLevel(t, level)
    \/ \E t \in lgThreads : GetLoggerOnceBegin(t)
    \/ \E t \in lgThreads : GetLoggerOnceEnd(t)
    \/ \E t \in lgThreads : SetLevelOnceBegin(t)
    \/ \E t \in lgThreads : SetLevelOnceEnd(t)
    \/ \E t \in lgThreads : OnceSkip(t)
    \/ \E t \in lgThreads : RLock(t)
    \/ \E t \in lgThreads : ReturnLogger(t)
    \/ \E t \in lgThreads : WLock(t)
    \/ \E t \in lgThreads : StoreLevel(t)

(***************************************************************************)
(* The parser (internal/parser) behind the scanner                         *)
(***************************************************************************)
\* the files of the repository: in three directories, the file names the
\* scanner and the parser know and one neither knows
FileNames == SupportedFileTypes \cup {"pyproject.toml", "README.md"}

FilePaths ==
    { dir \o <<name>> :
        dir \in { <<>>, <<"backend">>, <<"services", "api">> },
        name \in FileNames }

\* what a Trivy parser returns: an error, or a number of packages
TrivyResults ==
    { [failed |-> TRUE, packages |-> 0] } \cup
    { [failed |-> FALSE, packages |-> n] : n \in 0..MaxPackages }

NoFile == [Path |-> <<>>, Language |-> ""]

\* Parser.getFileName
getFileName(filePath) == filePath[Len(filePath)]

\* Parser.getEcosystem
getEcosystem(language) ==
    CASE language = "go" -> "go-modules"
      [] language = "nodejs" -> "npm"
      [] language = "java" -> "maven"
      [] language = "python" -> "pip"
      [] OTHER -> language

\* the name of the language in the messages of the parse functions
LanguageTitle(language) ==
    CASE language = "go" -> "Go"
      [] language = "nodejs" -> "Node.js"
      [] language = "java" -> "Java"
      [] language = "python" -> "Python"
      [] OTHER -> language

\* the switch of ParseFile and of the four parse functions: the Trivy
\* parser of a file, "checksums" for go.sum, which is not parsed,
\* "unsupported" for a file name the parse function of the language does
\* not know
TrivyParser(language, fileName) ==
    CASE language = "go" ->
            (CASE fileName = "go.mod" -> "mod"
               [] fileName = "go.sum" -> "checksums"
               [] OTHER -> "unsupported")
      [] language = "nodejs" ->
            (CASE fileName = "package-lock.json" -> "npm"
               [] fileName = "package.json" -> "packagejson"
               [] fileName = "yarn.lock" -> "yarn"
               [] OTHER -> "unsupported")
      [] language = "java" ->
            (IF fileName = "pom.xml" THEN "pom" ELSE "unsupported")
      [] language = "python" ->
            (CASE fileName = "requirements.txt" -> "pip"
               [] fileName = "Pipfile" -> "pipenv"
               [] fileName = "poetry.lock" -> "poetry"
               [] fileName = "uv.lock" -> "uv"
               [] fileName = "pyproject.toml" -> "pyproject"
               [] OTHER -> "unsupported")
      [] OTHER -> "unsupported language"

\* the error of ParseFile for a language it has no parse function for
UnsupportedLanguageError(language) ==
    <<"unsupported", " language: ", language>>

\* the error of a parse function for a file name it does not know
UnsupportedFileError(language, fileName) ==
    <<"unsupported", " ", LanguageTitle(language), " file: ", fileName>>

\* the error of a Trivy parser, as the parse function returns it
TrivyError(parser) ==
    IF parser = "mod" THEN <<"go.mod parser error: ", "parse error">>
    ELSE <<"parse error">>

\* the wrapping of ParseFile around the error of a parse function
ParseFileError(file, cause) ==
    <<"failed to parse ", file.Language, " file ">> \o Join(file.Path)
        \o <<": ">> \o cause

\* the packages a parse function returns from what its Trivy parser found
Packages(parser, found) ==
    CASE parser = "checksums" -> 0
      [] parser = "packagejson" -> IF found > 0 THEN 1 ELSE 0
      [] OTHER -> found

\* the dependencies ParseFile makes of the packages
Dependencies(file, count) ==
    [k \in 1..count |->
        [Name |-> k, IsInternal |-> FALSE,
         Ecosystem |-> getEcosystem(file.Language)]]

InitParser ==
    /\ pfPath \in FilePaths
    /\ pfTrivy \in TrivyResults
    /\ pfParser = "none"
    /\ pfRet = [status |-> "none"]
    /\ \/ /\ pfScanned = TRUE
          /\ pfPc = "scan"
          /\ pfFile = NoFile
       \/ /\ pfScanned = FALSE
          /\ pfPc = "ParseFile"
          /\ pfFile \in { [Path |-> pfPath, Language |-> l] :
                            l \in {"go", "java", "unknown"} }

\* no file is scanned or parsed
IdleParser ==
    /\ pfPath = <<>>
    /\ pfScanned = FALSE
    /\ pfTrivy = [failed |-> FALSE, packages |-> 0]
    /\ pfPc = "returned"
    /\ pfFile = NoFile
    /\ pfParser = "none"
    /\ pfRet = [status |-> "none"]

\* the scanner does not recognize the file: it is never parsed
IgnoreFile ==
    /\ pfPc = "scan"
    /\ FilterDependencyFiles(<<pfPath>>) = <<>>
    /\ pfPc' = "returned"
    /\ UNCHANGED << pfPath, pfScanned, pfTrivy, pfFile, pfParser, pfRet >>
    /\ UNCHANGED othersParser

\* the scanner recognizes the file and tags it with its language
RecognizeFile ==
    /\ pfPc = "scan"
    /\ FilterDependencyFiles(<<pfPath>>) # <<>>
    /\ pfFile' = [Path |-> pfPath,
                  Language |-> DetectLanguageFromFile(pfPath)]
    /\ pfPc' = "ParseFile"
    /\ UNCHANGED << pfPath, pfScanned, pfTrivy, pfParser, pfRet >>
    /\ UNCHANGED othersParser

\* ParseFile: the default case of the switch on the language
UnsupportedLanguage ==
    /\ pfPc = "ParseFile"
    /\ TrivyParser(pfFile.Language, getFileName(pfFile.Path))
           = "unsupported language"
    /\ pfRet' = [status |-> "ret", isNil |-> TRUE, dependencies |-> <<>>,
                 err |-> UnsupportedLanguageError(pfFile.Language)]
    /\ pfPc' = "returned"
    /\ UNCHANGED << pfPath, pfScanned, pfTrivy, pfFile, pfParser >>
    /\ UNCHANGED othersParser

\* ParseFile: the parse function of the language does not know the file
UnsupportedFile ==
    /\ pfPc = "ParseFile"
    /\ TrivyParser(pfFile.Language, getFileName(pfFile.Path)) = "unsupported"
    /\ pfRet' = [status |-> "ret", isNil |-> TRUE, dependencies |-> <<>>,
                 err |-> ParseFileError(pfFile,
                            UnsupportedFileError(pfFile.Language,
                                                 getFileName(pfFile.Path)))]
    /\ pfPc' = "returned"
    /\ UNCHANGED << pfPath, pfScanned, pfTrivy, pfFile, pfParser >>
    /\ UNCHANGED othersParser

\* ParseFile: the parse function calls the Trivy parser of the file
CallTrivyParser ==
    /\ pfPc = "ParseFile"
    /\ TrivyParser(pfFile.Language, getFileName(pfFile.Path))
           \notin {"unsupported", "unsupported language"}
    /\ pfParser' = TrivyParser(pfFile.Language, getFileName(pfFile.Path))
    /\ pfPc' = "parsing"
    /\ UNCHANGED << pfPath, pfScanned, pfTrivy, pfFile, pfRet >>
    /\ UNCHANGED othersParser

\* the Trivy parser fails: ParseFile wraps its error
ReturnParseError ==
    /\ pfPc = "parsing"
    /\ pfParser # "checksums"
    /\ pfTrivy.failed
    /\ pfRet' = [status |-> "ret", isNil |-> TRUE, dependencies |-> <<>>,
                 err |-> ParseFileError(pfFile, TrivyError(pfParser))]
    /\ pfPc' = "returned"
    /\ UNCHANGED << pfPath, pfScanned, pfTrivy, pfFile, pfParser >>
    /\ UNCHANGED othersParser

\* the Trivy parser succeeds, or there was nothing to parse: ParseFile
\* returns the dependencies
ReturnParsed ==
    /\ pfPc = "parsing"
    /\ pfParser = "checksums" \/ ~pfTrivy.failed
    /\ LET count == Packages(pfParser, pfTrivy.packages)
       IN  pfRet' = [status |-> "ret", isNil |-> count = 0,
                     dependencies |-> Dependencies(pfFile, count),
                     err |-> <<>>]
    /\ pfPc' = "returned"
    /\ UNCHANGED << pfPath, pfScanned, pfTrivy, pfFile, pfParser >>
    /\ UNCHANGED othersParser

NextParser ==
    \/ IgnoreFile
    \/ RecognizeFile
    \/ UnsupportedLanguage
    \/ UnsupportedFile
    \/ CallTrivyParser
    \/ ReturnParseError
    \/ ReturnParsed

(***************************************************************************)
(* The report generator (internal/generator): GenerateMatrix               *)
(*                                                                         *)
(* A version is a number, 0 for the empty string; the order of the         *)
(* numbers is the order compareVersions and the string comparison give.    *)
(***************************************************************************)
\* the dependencies the projects may have: two names, each with two
\* versions that differ in every field
MatrixDeps ==
    { [Name |-> "auth", Version |-> 1, LatestVersion |-> 1,
       Constraint |-> "^1", IsInternal |-> TRUE, Ecosystem |-> "go-modules"],
      [Name |-> "auth", Version |-> 2, LatestVersion |-> 2,
       Constraint |-> "^2", IsInternal |-> FALSE, Ecosystem |-> "npm"],
      [Name |-> "gin", Version |-> 0, LatestVersion |-> 0,
       Constraint |-> "", IsInternal |-> TRUE, Ecosystem |-> "npm"],
      [Name |-> "gin", Version |-> 2, LatestVersion |-> 2,
       Constraint |-> "~2", IsInternal |-> FALSE,
       Ecosystem |-> "go-modules"] }

\* the order of the strings that are compared with <
Rank(str) ==
    CASE str = "" -> 0
      [] str = "a" -> 1
      [] str = "auth" -> 2
      [] str = "b" -> 3
      [] str = "gin" -> 4

MatrixProject(id, repo, deps) ==
    [ID |-> id, Repository |-> [Name |-> repo], Path |-> "",
     Dependencies |-> deps]

\* the project lists: up to two projects, of the same or different IDs
\* and repositories
DependencyLists == UNION { [1..n -> MatrixDeps] : n \in 0..MaxRowDeps }

MatrixInputs ==
    { <<>> }
    \cup { << MatrixProject("p1", r, d) >> :
             r \in {"a", "b"}, d \in DependencyLists }
    \cup { << MatrixProject("p1", r, d), MatrixProject(id, "a", e) >> :
             r \in {"a", "b"}, id \in {"p1", "p2"},
             d \in DependencyLists, e \in DependencyLists }

\* Generator.filterProjectsWithDependencies
FilterProjectsWithDependencies(list) ==
    SelectSeq(list, LAMBDA p : Len(p.Dependencies) > 0)

\* the less function of sortProjectsByRepositoryName
ProjectLess(p, q) ==
    IF p.Repository.Name # q.Repository.Name
    THEN Rank(p.Repository.Name) < Rank(q.Repository.Name)
    ELSE Rank(p.Path) < Rank(q.Path)

\* the ways to reorder a list of n elements
Orders(n) ==
    { g \in [1..n -> 1..n] : \A a, b \in 1..n : g[a] = g[b] => a = b }

\* sortProjectsByRepositoryName: the orders sort.Slice may leave the
\* projects in, those in which no project is less than an earlier one
SortProjectsByRepositoryName(list) ==
    { [k \in 1..Len(list) |-> list[g[k]]] :
        g \in { f \in Orders(Len(list)) :
                  \A a, b \in 1..Len(list) :
                     a < b => ~ProjectLess(list[f[b]], list[f[a]]) } }

\* collectAllDependencies, the loop body: the instance with the greater
\* latest version is kept
KeepLatest(map, dep) ==
    IF dep.Name \notin DOMAIN map
          \/ dep.LatestVersion > map[dep.Name].LatestVersion
    THEN [n \in DOMAIN map \cup {dep.Name} |->
             IF n = dep.Name THEN dep ELSE map[n]]
    ELSE map

RECURSIVE CollectDependencies(_, _)
CollectDependencies(map, deps) ==
    IF deps = <<>> THEN map
    ELSE CollectDependencies(KeepLatest(map, Head(deps)), Tail(deps))

RECURSIVE CollectAllDependencies(_, _)
CollectAllDependencies(map, list) ==
    IF list = <<>> THEN map
    ELSE CollectAllDependencies(
             CollectDependencies(map, Head(list).Dependencies), Tail(list))

\* createProjectDependencyMap, the inner loop: the last dependency of a
\* name is the one of the map
RECURSIVE DependencyMap(_, _)
DependencyMap(map, deps) ==
    IF deps = <<>> THEN map
    ELSE DependencyMap(
             [n \in DOMAIN map \cup {Head(deps).Name} |->
                 IF n = Head(deps).Name THEN Head(deps) ELSE map[n]],
             Tail(deps))

\* createProjectDependencyMap: a map per project ID, made anew for every
\* project of the list
RECURSIVE CreateProjectDependencyMap(_, _)
CreateProjectDependencyMap(map, list) ==
    IF list = <<>> THEN map
    ELSE CreateProjectDependencyMap(
             [id \in DOMAIN map \cup {Head(list).ID} |->
                 IF id = Head(list).ID
                 THEN DependencyMap(EmptyMap, Head(list).Dependencies)
                 ELSE map[id]],
             Tail(list))

\* sortDependencies: the flags the loop over the project maps may find
\* for a name, the flag of the first map of the iteration that has it
FoundInternal(projectDeps, depName) ==
    IF \E id \in DOMAIN projectDeps : depName \in DOMAIN projectDeps[id]
    THEN { projectDeps[id][depName].IsInternal :
             id \in { i \in DOMAIN projectDeps :
                        depName \in DOMAIN projectDeps[i] } }
    ELSE { FALSE }

\* the less function of sortDependencies
DepInfoLess(a, b) ==
    IF a.isInternal # b.isInternal THEN a.isInternal
    ELSE Rank(a.name) < Rank(b.name)

\* sortDependencies: the orders sort.Slice may leave the names in
SortDepInfos(list) ==
    { [k \in 1..Len(list) |-> list[g[k]]] :
        g \in { f \in Orders(Len(list)) :
                  \A a, b \in 1..Len(list) :
                     a < b => ~DepInfoLess(list[f[b]], list[f[a]]) } }

\* findMaxVersion
RECURSIVE findMaxVersion(_)
findMaxVersion(versions) ==
    IF versions = <<>> THEN 0
    ELSE IF Len(versions) = 1 THEN versions[1]
    ELSE LET n == Len(versions)
             maxVersion == findMaxVersion(SubSeq(versions, 1, n - 1))
         IN  IF versions[n] > maxVersion THEN versions[n] ELSE maxVersion

\* findMaxVersionsForDependencies, for one name
MaxVersionOf(depName, list, projectDeps) ==
    LET having == SelectSeq(list, LAMBDA p :
                      /\ depName \in DOMAIN projectDeps[p.ID]
                      /\ projectDeps[p.ID][depName].Version # 0)
    IN  findMaxVersion([k \in 1..Len(having) |->
                           projectDeps[having[k].ID][depName].Version])

\* an empty cell, and the cell of a dependency
NoCell ==
    [isNil |-> TRUE, version |-> 0, latest_version |-> 0, constraint |-> "",
     is_internal |-> FALSE, ecosystem |-> "", max_version |-> 0,
     is_outdated |-> FALSE]

Cell(dep, maxVersion) ==
    [isNil |-> FALSE, version |-> dep.Version,
     latest_version |-> dep.LatestVersion, constraint |-> dep.Constraint,
     is_internal |-> dep.IsInternal, ecosystem |-> dep.Ecosystem,
     max_version |-> maxVersion,
     is_outdated |-> (maxVersion # 0 /\ dep.Version # 0
                        /\ dep.Version < maxVersion)]

\* createCombinedMatrix: the rows
CombinedMatrix(list, names, projectDeps, maxima) ==
    [i \in 1..Len(list) |->
        [j \in 1..Len(names) |->
            IF names[j] \in DOMAIN projectDeps[list[i].ID]
            THEN Cell(projectDeps[list[i].ID][names[j]], maxima[names[j]])
            ELSE NoCell]]

\* createCombinedMatrix: the column headers
DependencyObjects(names, set) ==
    [j \in 1..Len(names) |->
        [name |-> set[names[j]].Name,
         latest_version |-> set[names[j]].LatestVersion]]

StartGenerateMatrix ==
    /\ gmPc = "filter"
    /\ filteredProjects = <<>>
    /\ sortedProjects = <<>>
    /\ allDependencySet = EmptyMap
    /\ allDependencies = <<>>
    /\ allProjectDeps = EmptyMap
    /\ maxVersions = EmptyMap
    /\ gmRet = [status |-> "none"]

InitGenerator ==
    /\ gmProjects \in MatrixInputs
    /\ StartGenerateMatrix

\* no GenerateMatrix call
IdleGenerator ==
    /\ gmProjects = <<>>
    /\ gmPc = "returned"
    /\ filteredProjects = <<>>
    /\ sortedProjects = <<>>
    /\ allDependencySet = EmptyMap
    /\ allDependencies = <<>>
    /\ allProjectDeps = EmptyMap
    /\ maxVersions = EmptyMap
    /\ gmRet = [status |-> "none"]

FilterProjects ==
    /\ gmPc = "filter"
    /\ filteredProjects' = FilterProjectsWithDependencies(gmProjects)
    /\ gmPc' = "sort"
    /\ UNCHANGED << gmProjects, sortedProjects, allDependencySet,
                    allDependencies, allProjectDeps, maxVersions, gmRet >>
    /\ UNCHANGED othersGenerator

SortProjects ==
    /\ gmPc = "sort"
    /\ sortedProjects' \in SortProjectsByRepositoryName(filteredProjects)
    /\ gmPc' = "collect"
    /\ UNCHANGED << gmProjects, filteredProjects, allDependencySet,
                    allDependencies, allProjectDeps, maxVersions, gmRet >>
    /\ UNCHANGED othersGenerator

\* collectAllDependencies: the names come in the order of the map iteration
CollectAll ==
    /\ gmPc = "collect"
    /\ LET set == CollectAllDependencies(EmptyMap, sortedProjects) IN
         /\ allDependencySet' = set
         /\ allDependencies' \in
               { l \in [1..Cardinality(DOMAIN set) -> DOMAIN set] :
                   \A a, b \in 1..Len(l) : l[a] = l[b] => a = b }
    /\ gmPc' = "map"
    /\ UNCHANGED << gmProjects, filteredProjects, sortedProjects,
                    allProjectDeps, maxVersions, gmRet >>
    /\ UNCHANGED othersGenerator

CreateMap ==
    /\ gmPc = "map"
    /\ allProjectDeps' = CreateProjectDependencyMap(EmptyMap, sortedProjects)
    /\ gmPc' = "sortDependencies"
    /\ UNCHANGED << gmProjects, filteredProjects, sortedProjects,
                    allDependencySet, allDependencies, maxVersions, gmRet >>
    /\ UNCHANGED othersGenerator

\* sortDependencies: internal names first, then by name
SortDependencies ==
    /\ gmPc = "sortDependencies"
    /\ \E found \in [DOMAIN allDependencySet -> BOOLEAN] :
         /\ \A n \in DOMAIN found :
              found[n] \in FoundInternal(allProjectDeps, n)
         /\ LET depInfos == [k \in 1..Len(allDependencies) |->
                               [name |-> allDependencies[k],
                                isInternal |-> found[allDependencies[k]]]]
            IN  \E sorted \in SortDepInfos(depInfos) :
                   allDependencies' =
                       [k \in 1..Len(sorted) |-> sorted[k].name]
    /\ gmPc' = "maxVersions"
    /\ UNCHANGED << gmProjects, filteredProjects, sortedProjects,
                    allDependencySet, allProjectDeps, maxVersions, gmRet >>
    /\ UNCHANGED othersGenerator

FindMaxVersions ==
    /\ gmPc = "maxVersions"
    /\ maxVersions' =
         [n \in DOMAIN allDependencySet |->
             MaxVersionOf(n, sortedProjects, allProjectDeps)]
    /\ gmPc' = "matrix"
    /\ UNCHANGED << gmProjects, filteredProjects, sortedProjects,
                    allDependencySet, allDependencies, allProjectDeps,
                    gmRet >>
    /\ UNCHANGED othersGenerator

\* the matrix is built and GenerateMatrix returns
ReturnMatrix ==
    /\ gmPc = "matrix"
    /\ gmRet' = [status |-> "ret",
                 dependencies |->
                     DependencyObjects(allDependencies, allDependencySet),
                 projects |-> sortedProjects,
                 matrix |-> CombinedMatrix(sortedProjects, allDependencies,
                                           allProjectDeps, maxVersions)]
    /\ gmPc' = "returned"
    /\ UNCHANGED << gmProjects, filteredProjects, sortedProjects,
                    allDependencySet, allDependencies, allProjectDeps,
                    maxVersions >>
    /\ UNCHANGED othersGenerator

NextGenerator ==
    \/ FilterProjects
    \/ SortProjects
    \/ CollectAll
    \/ CreateMap
    \/ SortDependencies
    \/ FindMaxVersions
    \/ ReturnMatrix

Init == InitExec /\ IdlePages /\ IdleClient /\ IdleScanner /\ IdleClassifier
    /\ IdleGenerator
    /\ IdleParser
    /\ IdleLogger
Next ==
    \/ Cancel
    \/ \E k \in 1..Len(urlTask) : StartGetRepositoriesList(k)
    \/ \E k \in 1..Len(urlTask) : ReturnGetRepositoriesList(k)
    \/ \E k \in 1..Len(urlTask) : SendError(k)
    \/ \E k \in 1..Len(urlTask) : LockRepositories(k)
    \/ \E k \in 1..Len(urlTask) : AppendRepositories(k)
    \/ ResolveDone
    \/ \E k \in 1..Len(scanTask) : StartDetectProjects(k)
    \/ \E k \in 1..Len(scanTask) : ReturnDetectProjects(k)
    \/ \E k \in 1..Len(scanTask) : LockProjects(k)
    \/ \E k \in 1..Len(scanTask) : AppendProjects(k)
    \/ ScanDone
    \/ SendProject
    \/ CloseProjectChan
    \/ WorkerTakeProject
    \/ WorkerExit
    \/ \E i \in 1..Len(pp) : SendFile(i)
    \/ \E i \in 1..Len(pp) : CloseFileChan(i)
    \/ \E i \in 1..Len(pp) : FileWorkerTake(i)
    \/ \E i \in 1..Len(pp) : FileWorkerExit(i)
    \/ \E i \in 1..Len(pp) : \E j \in 1..Len(pp[i].file) :
         ReturnParseFile(i, j)
    \/ \E i \in 1..Len(pp) : \E j \in 1..Len(pp[i].file) :
         LockProjectErrors(i, j)
    \/ \E i \in 1..Len(pp) : \E j \in 1..Len(pp[i].file) :
         AppendProjectError(i, j)
    \/ \E i \in 1..Len(pp) : \E j \in 1..Len(pp[i].file) :
         \E d \in 1..Len(pp[i].file[j].deps) : LockClassified(i, j, d)
    \/ \E i \in 1..Len(pp) : \E j \in 1..Len(pp[i].file) :
         \E d \in 1..Len(pp[i].file[j].deps) : ClassifyDependency(i, j, d)
    \/ \E i \in 1..Len(pp) : \E j \in 1..Len(pp[i].file) : LockProject(i, j)
    \/ \E i \in 1..Len(pp) : \E j \in 1..Len(pp[i].file) : MergeFile(i, j)
    \/ \E i \in 1..Len(pp) : AssignDependencies(i)
    \/ \E i \in 1..Len(pp) : LockCounters(i)
    \/ \E i \in 1..Len(pp) : UpdateCounters(i)
    \/ CallGenerateHTML
    \/ ReturnGenerateHTML

\* one Execute call
Spec == Init /\ [][Next]_vars

\* Execute for no source URL, for a URL without path, for an empty group,
\* for a group of two repositories, and for a repository of two projects
\* of which one has no manifest file and the other two; every manifest is
\* below the threshold of the concurrent classification
LiveURLs == { <<>>, <<9>>, <<5>>, <<1>>, <<3>> }

InitLive == Init /\ repositoryURLs \in LiveURLs

\* the steps of Execute for these inputs: no manifest is classified by the
\* goroutines of classifyDependenciesConcurrently
NextLive ==
    \/ Cancel
    \/ \E k \in 1..Len(urlTask) : StartGetRepositoriesList(k)
    \/ \E k \in 1..Len(urlTask) : ReturnGetRepositoriesList(k)
    \/ \E k \in 1..Len(urlTask) : SendError(k)
    \/ \E k \in 1..Len(urlTask) : LockRepositories(k)
    \/ \E k \in 1..Len(urlTask) : AppendRepositories(k)
    \/ ResolveDone
    \/ \E k \in 1..Len(scanTask) : StartDetectProjects(k)
    \/ \E k \in 1..Len(scanTask) : ReturnDetectProjects(k)
    \/ \E k \in 1..Len(scanTask) : LockProjects(k)
    \/ \E k \in 1..Len(scanTask) : AppendProjects(k)
    \/ ScanDone
    \/ SendProject
    \/ CloseProjectChan
    \/ WorkerTakeProject
    \/ WorkerExit
    \/ \E i \in 1..Len(pp) : SendFile(i)
    \/ \E i \in 1..Len(pp) : CloseFileChan(i)
    \/ \E i \in 1..Len(pp) : FileWorkerTake(i)
    \/ \E i \in 1..Len(pp) : FileWorkerExit(i)
    \/ \E i \in 1..Len(pp) : \E j \in 1..Len(pp[i].file) :
         ReturnParseFile(i, j)
    \/ \E i \in 1..Len(pp) : \E j \in 1..Len(pp[i].file) :
         LockProjectErrors(i, j)
    \/ \E i \in 1..Len(pp) : \E j \in 1..Len(pp[i].file) :
         AppendProjectError(i, j)
    \/ \E i \in 1..Len(pp) : \E j \in 1..Len(pp[i].file) :
         \E d \in 1..Len(pp[i].file[j].deps) : ClassifyDependency(i, j, d)
    \/ \E i \in 1..Len(pp) : \E j \in 1..Len(pp[i].file) : LockProject(i, j)
    \/ \E i \in 1..Len(pp) : \E j \in 1..Len(pp[i].file) : MergeFile(i, j)
    \/ \E i \in 1..Len(pp) : AssignDependencies(i)
    \/ \E i \in 1..Len(pp) : LockCounters(i)
    \/ \E i \in 1..Len(pp) : UpdateCounters(i)
    \/ CallGenerateHTML
    \/ ReturnGenerateHTML

\* a step of a goroutine of Execute or the return of a collaborator call;
\* the cancellation of the context is not one
Run == NextLive /\ UNCHANGED ctxDone

\* one Execute call in which a goroutine that can take a step takes one
\* and every collaborator call returns
SpecLive == InitLive /\ [][NextLive]_vars /\ WF_vars(Run)

\* one getGroupProjects call
InitGetGroupProjects ==
    InitPages /\ IdleExec /\ IdleClient /\ IdleScanner /\ IdleClassifier
    /\ IdleGenerator
    /\ IdleParser
    /\ IdleLogger
SpecPages == InitGetGroupProjects /\ [][NextPages]_vars

\* a step of a goroutine of getGroupProjects or the return of a page
\* request; the cancellation of the context is not one
RunPages == NextPages /\ UNCHANGED gpCtxDone

\* one getGroupProjects call, of a group of up to LivePages pages, in which
\* a goroutine that can take a step takes one and every page request
\* returns
InitPagesLive == InitGetGroupProjects /\ totalPages <= LivePages

SpecPagesLive == InitPagesLive /\ [][NextPages]_vars /\ WF_vars(RunPages)

\* one GetRepositoriesList call
InitGetRepositoriesList ==
    InitClient /\ IdleExec /\ IdlePages /\ IdleScanner /\ IdleClassifier
    /\ IdleGenerator
    /\ IdleParser
    /\ IdleLogger
SpecClient == InitGetRepositoriesList /\ [][NextClient]_vars

\* two DetectProjects calls for one repository
InitDetectProjects == InitScanner /\ IdleExec /\ IdlePages /\ IdleClient
    /\ IdleGenerator
    /\ IdleParser
    /\ IdleLogger
    /\ IdleClassifier
SpecScanner == InitDetectProjects /\ [][NextScanner]_vars

\* two ClassifyDependencies calls on one list
InitClassifyDependencies ==
    InitClassifier /\ IdleExec /\ IdlePages /\ IdleClient /\ IdleScanner
    /\ IdleGenerator
    /\ IdleParser
    /\ IdleLogger
SpecClassifier == InitClassifyDependencies /\ [][NextClassifier]_vars

\* goroutines that call GetLogger and SetLevel
InitLoggerCalls ==
    InitLogger /\ IdleExec /\ IdlePages /\ IdleClient /\ IdleScanner
    /\ IdleGenerator
    /\ IdleParser
    /\ IdleClassifier

SpecLogger == InitLoggerCalls /\ [][NextLogger]_vars

\* one file of a repository, scanned and parsed
InitScanAndParse ==
    InitParser /\ IdleExec /\ IdlePages /\ IdleClient /\ IdleScanner
    /\ IdleGenerator
    /\ IdleClassifier /\ IdleLogger

SpecParser == InitScanAndParse /\ [][NextParser]_vars

\* one GenerateMatrix call
InitGenerateMatrix ==
    InitGenerator /\ IdleExec /\ IdlePages /\ IdleClient /\ IdleScanner
    /\ IdleClassifier /\ IdleLogger /\ IdleParser

SpecGenerator == InitGenerateMatrix /\ [][NextGenerator]_vars

(***************************************************************************)
(* Properties of Execute                                                   *)
(***************************************************************************)
\* the elements of a sequence
Range(s) == { s[k] : k \in 1..Len(s) }

\* number of elements of s that equal x
RECURSIVE CountIn(_, _)
CountIn(s, x) ==
    IF s = <<>> THEN 0
    ELSE (IF Head(s) = x THEN 1 ELSE 0) + CountIn(Tail(s), x)

\* a DetectProjects call has started
ScanStarted == \E k \in 1..Len(scanTask) : scanTask[k] # "ready"

\* a ParseFile call (and so possibly an IsInternal call) has started
ParseStarted ==
    \E i \in 1..Len(pp) : \E j \in 1..Len(pp[i].file) :
        pp[i].file[j].st # "new"

\* GetRepositoriesList failed for at least one source URL
ResolveFailed == errChan # <<>>

\* Execute got past step 1
ReachedReport == pc = "report" \/ (pc = "done" /\ ~ResolveFailed)

\* the number of projects returned by the successful DetectProjects calls
RECURSIVE DetectedProjects(_)
DetectedProjects(k) ==
    IF k = 0 THEN 0
    ELSE DetectedProjects(k - 1)
         + (IF k \in scanFailed THEN 0
            ELSE Len(MockDetectProjects(repositories[k])))

\* the names of a dependency list
Names(deps) == [d \in 1..Len(deps) |-> deps[d].Name]

\* files of project i whose ParseFile failed
FailedFiles(i) ==
    { j \in 1..Len(pp[i].file) : pp[i].file[j].st = "failed" }

\* how often name n occurs in the results of the successful ParseFile calls
\* of the first j files of project i
RECURSIVE ParsedCount(_, _, _)
ParsedCount(i, j, n) ==
    IF j = 0 THEN 0
    ELSE ParsedCount(i, j - 1, n)
         + (IF j \in FailedFiles(i) THEN 0
            ELSE CountIn(MockParseFile(allProjects[i].DependencyFiles[j]), n))

RECURSIVE ParsedTotal(_, _)
ParsedTotal(i, j) ==
    IF j = 0 THEN 0
    ELSE ParsedTotal(i, j - 1)
         + (IF j \in FailedFiles(i) THEN 0
            ELSE Len(MockParseFile(allProjects[i].DependencyFiles[j])))

RECURSIVE ParsedTotalAll(_)
ParsedTotalAll(i) ==
    IF i = 0 THEN 0
    ELSE ParsedTotalAll(i - 1) + ParsedTotal(i, Len(pp[i].file))

\* C1: the phases of Execute do not overlap: no DetectProjects call has
\* started unless every GetRepositoriesList goroutine has finished, no
\* ParseFile or IsInternal call has started unless every DetectProjects
\* goroutine has finished, and GenerateHTML has been called only if every
\* project worker has returned and every project is processed.
C1_PhasesInOrder ==
    /\ ScanStarted => \A k \in 1..Len(urlTask) : urlTask[k] = "done"
    /\ ParseStarted => \A k \in 1..Len(scanTask) : scanTask[k] = "done"
    /\ genCalls > 0 =>
         /\ projWorkersExited = defaultProjectWorkers
         /\ \A i \in 1..Len(pp) : pp[i].st = "done"

\* GenerateHTML is in flight after two repositories were scanned and two
\* projects processed
C1_Witness ==
    /\ pc = "report"
    /\ Len(repositories) >= 2
    /\ Len(allProjects) >= 2

\* C2: every AnalysisResult Execute returns satisfies
\* InternalCount + ExternalCount = TotalDependencies.
C2_CountsAddUp ==
    response.status = "ok" =>
        response.InternalCount + response.ExternalCount
            = response.TotalDependencies

\* a result that counts the large manifest, classified one task per
\* dependency, with dependencies of both kinds
C2_Witness ==
    /\ response.status = "ok"
    /\ response.TotalDependencies > sequentialThreshold
    /\ response.InternalCount > 0
    /\ response.ExternalCount > 0

\* C3: once GetRepositoriesList has failed for a source URL, no
\* DetectProjects, ParseFile or GenerateHTML call is ever made, Execute
\* never returns a result, and when it returns it returns an error.
C3_ResolveErrorAborts ==
    ResolveFailed =>
        /\ ~ScanStarted
        /\ ~ParseStarted
        /\ genCalls = 0
        /\ response.status # "ok"
        /\ pc = "done" => response.status = "err"

\* Execute returned the error although another URL had been resolved
C3_Witness ==
    /\ pc = "done"
    /\ response.status = "err"
    /\ ResolveFailed
    /\ repositories # <<>>

\* C4: when DetectProjects failed for some repositories and Execute has
\* returned, GenerateHTML was called once with the projects of the
\* repositories whose scan succeeded, and unless GenerateHTML itself failed
\* Execute returned a result whose TotalProjects is the number of those
\* projects.
C4_ScanErrorTolerated ==
    (pc = "done" /\ scanFailed # {}) =>
        /\ genCalls = 1
        /\ Len(genArg) = DetectedProjects(Len(repositories))
        /\ ~genFailed =>
             /\ response.status = "ok"
             /\ response.TotalProjects = DetectedProjects(Len(repositories))

\* a result with projects although one scan failed
C4_Witness ==
    /\ pc = "done"
    /\ scanFailed # {}
    /\ response.status = "ok"
    /\ response.TotalProjects > 0

\* C5: a project with a failed ParseFile call, once processProject has
\* returned, carries exactly the dependencies of its other files;
\* processProject reported no error, the dependencies are counted in the
\* shared total when the worker is done with the project, and Execute
\* returns a result unless GenerateHTML fails.
C5_ParseErrorTolerated ==
    \A i \in 1..Len(pp) :
        (pp[i].st \in {"ret", "update", "done"} /\ FailedFiles(i) # {}) =>
            /\ \A n \in 1..BigDeps :
                 CountIn(Names(allProjects[i].Dependencies), n)
                     = ParsedCount(i, Len(pp[i].file), n)
            /\ Len(allProjects[i].Dependencies)
                     = ParsedTotal(i, Len(pp[i].file))
            /\ errors = 0
            /\ genCalls > 0 => totalDependencies = ParsedTotalAll(Len(pp))
            /\ (pc = "done" /\ ~genFailed) => response.status = "ok"

\* a processed project that lost one file and kept the two dependencies of
\* the other
C5_Witness ==
    \E i \in 1..Len(pp) :
        /\ pp[i].st = "done"
        /\ FailedFiles(i) # {}
        /\ Len(allProjects[i].Dependencies) = 2
        /\ totalDependencies >= 2

\* C6: when GenerateHTML has returned an error Execute returns an error,
\* and Execute returns a result only after one successful GenerateHTML.
C6_GeneratorErrorFatal ==
    /\ genFailed => response.status = "err"
    /\ response.status = "ok" => (genCalls = 1 /\ ~genFailed)

\* GenerateHTML failed after dependencies had been counted
C6_Witness ==
    /\ pc = "done"
    /\ genFailed
    /\ totalDependencies > 0

\* C7: if the context is cancelled while Execute is running, Execute
\* returns an error and never a result computed from what had completed
\* before the cancellation; stated for a cancellation that made a
\* DetectProjects call fail after other projects had been detected.
C7_CancelIsError ==
    (pc = "done" /\ scanCancelled # {} /\ allProjects # <<>>) =>
        response.status = "err"

\* C10: GenerateHTML is called at most once, and exactly once when Execute
\* reaches the report; the list it gets is the list of all detected
\* projects, those without dependencies included, each processed and
\* carrying the dependency list processProject built, with every internal
\* flag as the classifier gives it; nothing of it changes afterwards.
C10_ReportGetsFinalProjects ==
    /\ genCalls <= 1
    /\ ReachedReport => genCalls = 1
    /\ genCalls = 1 =>
         /\ genArg = allProjects
         /\ Len(genArg) = DetectedProjects(Len(repositories))
         /\ \A i \in 1..Len(genArg) :
              /\ pp[i].st = "done"
              /\ genArg[i].Dependencies = pp[i].projectDependencies
              /\ Len(genArg[i].Dependencies) = ParsedTotal(i, Len(pp[i].file))
              /\ \A d \in 1..Len(genArg[i].Dependencies) :
                   genArg[i].Dependencies[d].IsInternal
                       = MockIsInternal(genArg[i].Dependencies[d].Name)

\* the generator is handed a project without and a project with
\* dependencies, one of them internal
C10_Witness ==
    /\ genCalls = 1
    /\ \E i \in 1..Len(genArg) : genArg[i].Dependencies = <<>>
    /\ \E i \in 1..Len(genArg) :
         \E d \in 1..Len(genArg[i].Dependencies) :
             genArg[i].Dependencies[d].IsInternal

\* the sum of len(project.Dependencies) over a project list
RECURSIVE SumDependencies(_)
SumDependencies(list) ==
    IF list = <<>> THEN 0
    ELSE Len(Head(list).Dependencies) + SumDependencies(Tail(list))

\* C11: in every AnalysisResult Execute returns, TotalDependencies is the
\* sum of len(project.Dependencies) over the projects handed to the report
\* generator, and TotalProjects is the number of those projects.
C11_TotalsMatchReport ==
    response.status = "ok" =>
        /\ response.TotalDependencies = SumDependencies(genArg)
        /\ response.TotalProjects = Len(genArg)

\* a result over two projects, one of which lost a manifest, with
\* dependencies counted
C11_Witness ==
    /\ response.status = "ok"
    /\ response.TotalProjects >= 2
    /\ response.TotalDependencies > 0
    /\ \E i \in 1..Len(pp) : FailedFiles(i) # {}

\* message contains part
Contains(message, part) ==
    \E o \in 0..(Len(message) - Len(part)) :
        SubSeq(message, o + 1, o + Len(part)) = part

\* C14: when the resolution of a source URL has failed, the error Execute
\* returns contains a failing source URL.
C14_ErrorNamesURL ==
    (pc = "done" /\ ResolveFailed) =>
        \E k \in 1..Len(repositoryURLs) :
            Contains(response.err, SourceURL(repositoryURLs[k]))

\* Execute returned the error of a URL without path, which names the URL
C14_ExtractErrorReturned ==
    /\ pc = "done"
    /\ ResolveFailed
    /\ Contains(response.err, SourceURL(9))

\* files of project i whose ParseFile call is in flight
ParsingFiles(i) ==
    { j \in 1..Len(pp[i].file) : pp[i].file[j].st = "parsing" }

\* min(defaultDependencyFileWorkers, number of manifests of project i)
FilePoolCap(i) ==
    IF Len(allProjects[i].DependencyFiles) < defaultDependencyFileWorkers
    THEN Len(allProjects[i].DependencyFiles)
    ELSE defaultDependencyFileWorkers

\* C12: at every moment of the Process phase at most 5 projects are being
\* processed, and within any one project at most min(3, number of its
\* manifest files) ParseFile calls are in flight.
C12_PoolsBounded ==
    /\ Cardinality(BusyProjects) <= 5
    /\ \A i \in 1..Len(pp) : Cardinality(ParsingFiles(i)) <= FilePoolCap(i)

\* five projects are being processed while a sixth waits in the queue
C12_Witness ==
    /\ Cardinality(BusyProjects) = 5
    /\ projectChan # <<>>

\* three ParseFile calls of one project are in flight while a fourth
\* manifest waits in the queue
C12_FilePoolFull ==
    \E i \in 1..Len(pp) :
        /\ Cardinality(ParsingFiles(i)) = 3
        /\ pp[i].fileChan # <<>>

\* the holder h.task of h.lock is between Lock() and Unlock() of the
\* critical section of that lock, where its one remaining step appends to
\* or increments the guarded aggregate; in particular none of its
\* collaborator calls is in flight
InCriticalSection(h) ==
    LET kind == h.task[1]
        a == h.task[2]
        b == h.task[3]
        c == h.task[4]
    IN  CASE kind = "url" ->
               /\ h.lock = Mutex("Execute.mu", 0, 0)
               /\ urlTask[a] = "append"
          [] kind = "repo" ->
               /\ h.lock = Mutex("Execute.projectsMu", 0, 0)
               /\ scanTask[a] = "append"
          [] kind = "project" ->
               /\ h.lock = Mutex("processProjectsConcurrently.mu", 0, 0)
               /\ pp[a].st = "update"
          [] kind = "file" ->
               \/ /\ h.lock = Mutex("processProject.projectMu", a, 0)
                  /\ pp[a].file[b].st = "merge"
               \/ /\ h.lock = Mutex("processProject.projectErrorMu", a, 0)
                  /\ pp[a].file[b].st = "error"
          [] kind = "dependency" ->
               /\ h.lock = Mutex("classifyDependenciesConcurrently.mu", a, b)
               /\ pp[a].file[b].st = "classify"
               /\ c \notin pp[a].file[b].done
          [] OTHER -> FALSE

\* C13: no orchestrator lock is held while a collaborator call of its
\* holder is in flight: in every reachable state each lock has at most one
\* holder, and a goroutine that holds a lock is inside the critical
\* section of that lock, about to append to or increment the aggregate
\* the lock guards and to unlock.
C13_LocksOnlyAroundUpdates ==
    /\ \A h \in held : InCriticalSection(h)
    /\ \A g, h \in held : g.lock = h.lock => g = h

\* a file worker holds projectMu, after its merge of an earlier file, while
\* the ParseFile call of another worker of the project is in flight
C13_Witness ==
    \E h \in held :
        /\ h.task[1] = "file"
        /\ h.lock = Mutex("processProject.projectMu", h.task[2], 0)
        /\ ParsingFiles(h.task[2]) # {}
        /\ pp[h.task[2]].projectDependencies # <<>>

(***************************************************************************)
(* Properties of getGroupProjects                                          *)
(***************************************************************************)
\* C8: when the fetch of one of the pages 2..totalPages has failed,
\* getGroupProjects returns a nil list and a non-nil error.
C8_PageErrorAborts ==
    (gpRet.status = "ret" /\ fetchFailed \ {1} # {}) =>
        (gpRet.isNil /\ gpRet.err # "nil")

\* C9: when every page fetch succeeded and the context is not cancelled,
\* getGroupProjects on a multi-page group (a full first page and more
\* than one page in total) returns, with a nil error, the pages
\* 1..totalPages, each once.
C9_AllPagesOnce ==
    (gpRet.status = "ret" /\ firstPage = perPage /\ totalPages > 1
       /\ fetchFailed = {} /\ ~gpCtxDone) =>
        /\ gpRet.err = "nil"
        /\ ~gpRet.isNil
        /\ Len(gpRet.repos) = totalPages
        /\ Range(gpRet.repos) = 1..totalPages

\* C15: during one getGroupProjects call at most 5 page requests are in
\* flight at any time, and each page is requested at most once.
C15_PageRequestsBounded ==
    /\ Cardinality(inFlight) <= 5
    /\ \A p \in 1..totalPages : requested[p] <= 1

\* five page requests are in flight while a sixth page waits in the queue
C15_Witness ==
    /\ Cardinality(inFlight) = 5
    /\ pageChan # <<>>

(***************************************************************************)
(* Properties of GetRepositoriesList                                       *)
(***************************************************************************)
\* url has no scheme or a malformed percent escape
Unparsable(url) ==
    url # <<>> /\ (Head(url) = NoScheme \/ \E k \in 1..Len(url) : url[k] = "%zz")

\* the part of url after the origin
AfterOrigin(url) ==
    IF url # <<>> /\ Head(url) = Origin THEN Tail(url) ELSE url

\* the path of url is empty or the single separator
EmptyPath(url) ==
    /\ ~Unparsable(url)
    /\ [k \in 1..Len(AfterOrigin(url)) |-> Unescaped(AfterOrigin(url)[k])]
           \in { <<>>, <<"/">> }

\* C16: for a source URL that cannot be parsed or whose path is empty,
\* GetRepositoriesList returns a nil list and an error without having
\* called the remote API; that error starts with "failed to extract path
\* from URL" and names the URL, while the error for a group or project
\* that is not found starts with "failed to get project or group" and is
\* returned only after GetGroup and GetProject were called.
C16_BadURLBeforeAnyCall ==
    /\ (grRet.status = "ret" /\ (Unparsable(repoURL) \/ EmptyPath(repoURL))) =>
         /\ grRet.isNil
         /\ grRet.err # <<>>
         /\ remoteCalls = <<>>
         /\ Head(grRet.err) = "failed to extract path from URL "
         /\ SubSeq(grRet.err, 2, 1 + Len(repoURL)) = repoURL
    /\ (grRet.status = "ret" /\ grRet.err # <<>>
          /\ Head(grRet.err) = "failed to get project or group ") =>
         /\ remoteCalls = <<"GetGroup", "GetProject">>
         /\ Head(grRet.err) # "failed to extract path from URL "

\* GetRepositoriesList has returned for "https://gitlab.com/"
C16_Witness ==
    /\ grRet.status = "ret"
    /\ repoURL = <<Origin, "/">>
    /\ grRet.err # <<>>

\* GetRepositoriesList has returned for a URL without scheme
C16_NoSchemeReturned ==
    /\ grRet.status = "ret"
    /\ repoURL = <<NoScheme, "group">>

(***************************************************************************)
(* Properties of DetectProjects                                            *)
(***************************************************************************)
\* the file name of a path is a supported manifest name
Recognized(file) == file[Len(file)] \in SupportedFileTypes

\* the recognized files of the listing
RecognizedFiles == { f \in Range(files) : Recognized(f) }

\* the directory of a path, as its segments joined by the separator
Directory(file) == Join(SubSeq(file, 1, Len(file) - 1))

\* the language of a manifest name
LanguageOf(file) ==
    CASE file[Len(file)] \in {"go.mod", "go.sum"} -> "go"
      [] file[Len(file)] = "package.json" -> "nodejs"
      [] OTHER -> "other"

\* the (language, directory) pairs of the recognized files
Pairs == { <<LanguageOf(f), Directory(f)>> : f \in RecognizedFiles }

\* the groups of the map that hold file f
GroupsOf(f) ==
    { key \in DOMAIN projectMap : f \in Range(projectMap[key].files) }

\* C17: the grouping by (language, directory) is a partition of the
\* recognized files: the filtered list holds exactly the recognized files,
\* each of them lies in exactly one group and once in it, the groups hold
\* nothing else, all files of a group have the language and the directory
\* of the group, and all files of a Project those of the Project.
C17_GroupingIsPartition ==
    (scPc # "GetFilesList" /\ ~listFailed) =>
        /\ Range(dependencyFiles) = RecognizedFiles
        /\ \A f \in RecognizedFiles :
             /\ Cardinality(GroupsOf(f)) = 1
             /\ \A key \in GroupsOf(f) :
                  CountIn(projectMap[key].files, f) = 1
        /\ UNION { Range(projectMap[key].files) : key \in DOMAIN projectMap }
               = RecognizedFiles
        /\ \A key \in DOMAIN projectMap :
             /\ projectMap[key].files # <<>>
             /\ \A f \in Range(projectMap[key].files) :
                  /\ LanguageOf(f) = projectMap[key].language
                  /\ Directory(f) = projectMap[key].path
        /\ \A q \in Range(projects) :
             \A d \in Range(q.DependencyFiles) :
                /\ d.Language = q.Language
                /\ LanguageOf(d.Path) = q.Language
                /\ Directory(d.Path) = q.Path

\* three files are grouped into three groups: two of the same language in
\* different directories, two of the same directory in different languages
C17_Witness ==
    /\ scPc = "groups"
    /\ Cardinality(DOMAIN projectMap) = 3
    /\ Range(files) = { <<"backend", "go.mod">>, <<"go.mod">>,
                        <<"backend", "package.json">> }

\* the recognized files of a (language, directory) pair whose fetch
\* succeeds, in the order of the listing
Survivors(pair) ==
    SelectSeq(files, LAMBDA f :
        /\ Recognized(f)
        /\ <<LanguageOf(f), Directory(f)>> = pair
        /\ f \notin failing)

\* the returned projects of a (language, directory) pair
ProjectsOf(pair) ==
    { k \in 1..Len(scRet.projects) :
        <<scRet.projects[k].Language, scRet.projects[k].Path>> = pair }

\* C18: when DetectProjects returns after a successful listing, a
\* (language, directory) group whose fetches all failed has no Project, and
\* every other group has exactly one Project, which holds exactly the
\* files of the group whose fetch succeeded; there is no other Project.
\* A repository with go.mod and backend/package.json yields the two
\* Projects (go, "") and (nodejs, "backend").
C18_FetchFailureDropsFile ==
    (scRet.status = "ret" /\ ~listFailed) =>
        /\ \A pair \in Pairs :
             /\ Cardinality(ProjectsOf(pair))
                    = IF Survivors(pair) = <<>> THEN 0 ELSE 1
             /\ \A k \in ProjectsOf(pair) :
                  [d \in 1..Len(scRet.projects[k].DependencyFiles) |->
                      scRet.projects[k].DependencyFiles[d].Path]
                      = Survivors(pair)
        /\ \A k \in 1..Len(scRet.projects) :
             <<scRet.projects[k].Language, scRet.projects[k].Path>> \in Pairs
        /\ (Range(files) = { <<"go.mod">>, <<"backend", "package.json">> }
              /\ failing = {}) =>
             /\ Len(scRet.projects) = 2
             /\ { <<q.Language, q.Path>> : q \in Range(scRet.projects) }
                    = { <<"go", <<>>>>, <<"nodejs", <<"backend">>>> }

\* one group lost one of its two files and kept its Project, the other
\* group lost its only file and has none
C18_Witness ==
    /\ scRet.status = "ret"
    /\ Cardinality(DOMAIN projectMap) = 2
    /\ Len(scRet.projects) = 1
    /\ Len(scRet.projects[1].DependencyFiles) = 1
    /\ Cardinality(failing) = 2

\* C19: DetectProjects returns an error exactly when its GetFilesList call
\* failed, and then it returns nil projects; failed GetFileContent calls,
\* however many, give no error.
C19_OnlyListingIsFatal ==
    scRet.status = "ret" =>
        /\ (scRet.err # <<>>) <=> listFailed
        /\ listFailed => (scRet.isNil /\ scRet.projects = <<>>)

\* DetectProjects returned without error although every fetch failed
C19_Witness ==
    /\ scRet.status = "ret"
    /\ scRet.err = <<>>
    /\ Cardinality(RecognizedFiles) = 3
    /\ failing = RecognizedFiles

\* what identifies a project
Identity(q) ==
    [ID |-> q.ID, Name |-> q.Name, Path |-> q.Path, Language |-> q.Language]

Identities(list) == { Identity(list[k]) : k \in 1..Len(list) }

\* C20: a second DetectProjects call for the same repository, with the same
\* files listed in any order and the same fetch outcomes, returns as many
\* projects as the first, with the same IDs, names, paths and languages,
\* whatever the iteration orders of the two calls.
C20_SameProjectsOnRerun ==
    (run = 2 /\ scRet.status = "ret" /\ ~listFailed) =>
        /\ Identities(scRet.projects) = Identities(firstRet.projects)
        /\ Len(scRet.projects) = Len(firstRet.projects)

\* the second call listed the files in another order and returned its
\* projects in another order than the first
C20_Witness ==
    /\ run = 2
    /\ scRet.status = "ret"
    /\ Len(scRet.projects) = 3
    /\ scRet.projects[1].ID # firstRet.projects[1].ID
    /\ firstRet.projects[1].DependencyFiles[1].Path # files[1]

(***************************************************************************)
(* Properties of the classifier                                            *)
(***************************************************************************)
\* the non-nil elements of the returned list
Returned ==
    IF clPc = "returned" /\ clRet.status = "ret" /\ ~clRet.list.isNil
    THEN { d \in Range(clRet.list.items) : ~d.isNil }
    ELSE {}

\* a pattern with a wildcard
IsWildcard(p) == \E k \in 1..Len(p) : p[k] = "*"

\* a pattern that ends in a separator, and one that begins with one
IsPrefixForm(p) == p # <<>> /\ p[Len(p)] \in {"/", "."}

IsSuffixForm(p) == p # <<>> /\ p[1] \in {"/", "."}

\* the five ways a pattern matches a name
MatchesByForm(name, p) ==
    \/ name = p
    \/ IsWildcard(p) /\ Match(p, name)
    \/ IsPrefixForm(p) /\ HasPrefix(name, SubSeq(p, 1, Len(p) - 1))
    \/ IsSuffixForm(p) /\ HasSuffix(name, SubSeq(p, 2, Len(p)))
    \/ /\ ~IsWildcard(p) /\ ~IsPrefixForm(p) /\ ~IsSuffixForm(p)
       /\ StringsContains(name, p)

\* C21: a dependency with a non-empty name is flagged internal exactly when
\* some pattern of the ruleset equals the name, or has a "*" and
\* glob-matches it, or ends in "/" or "." and the name starts with the
\* pattern without that last character, or begins with "/" or "." and the
\* name ends with the pattern without that first character, or has none of
\* these forms and is a substring of the name.
C21_MatchesExactlyByForm ==
    \A d \in Returned :
        d.Name # <<>> =>
            (d.IsInternal <=>
                \E k \in 1..Len(internalPatterns) :
                    MatchesByForm(d.Name, internalPatterns[k]))

\* a pattern that ends in "./" or begins with "/."
TwoSeparators(p) ==
    \/ HasSuffix(p, <<".", "/">>)
    \/ HasPrefix(p, <<"/", ".">>)

\* the five forms decide the flag under every ruleset whose patterns have
\* no such pair of separators at an end
C21_ExactWithOneSeparator ==
    (\A k \in 1..Len(internalPatterns) : ~TwoSeparators(internalPatterns[k]))
        => C21_MatchesExactlyByForm

\* C22: a second ClassifyDependencies call on the list the first call
\* returned leaves every internal flag as the first call left it, and after
\* each call the flag of every element is what IsInternal gives for that
\* element taken alone, whatever flag it had and whatever the other
\* elements of the list are.
C22_IdempotentElementwise ==
    (clPc = "returned" /\ clRet.status = "ret") =>
        /\ clRun = 2 => clRet.list = clFirst
        /\ \A d \in Returned :
             d.IsInternal = IsInternal(internalPatterns, Dep(d.Name, FALSE))

\* the second call returned a list of three elements: one internal, one
\* that came flagged internal and is external, and a nil element
C22_Witness ==
    /\ clPc = "returned"
    /\ clRun = 2
    /\ clRet.status = "ret"
    /\ Len(clRet.list.items) = 3
    /\ clRet.list.items[1] = Dep(AngularCore, FALSE)
    /\ clRet.list.items[2] = NilDep
    /\ clRet.list.items[3] = Dep(CompanyUtils, TRUE)

\* C23: a dependency with an empty name is never flagged internal,
\* whatever the ruleset, and no dependency is flagged internal under the
\* empty ruleset.
C23_EmptyNameOrRulesetIsExternal ==
    \A d \in Returned :
        (d.Name = <<>> \/ internalPatterns = <<>>) => ~d.IsInternal

\* the pattern "/" is a prefix pattern of the empty prefix, and the
\* dependency with the empty name was classified external
C23_Witness ==
    /\ clPc = "returned"
    /\ clRet.status = "ret"
    /\ internalPatterns = << <<"/">> >>
    /\ Returned = { Dep(<<>>, FALSE) }

\* C24: ClassifyDependencies returns no error; for a nil list it returns
\* nil, and for any other list it returns that list: as long as the
\* argument, nil where the argument has a nil element, and elsewhere the
\* element of the argument, classified.
C24_NilListAndNilElements ==
    (clPc = "returned" /\ clRet.status = "ret") =>
        /\ clRet.err = <<>>
        /\ clArg.isNil => clRet.list.isNil
        /\ ~clArg.isNil =>
             /\ ~clRet.list.isNil
             /\ Len(clRet.list.items) = Len(clArg.items)
             /\ \A k \in 1..Len(clArg.items) :
                  clRet.list.items[k] =
                      IF clArg.items[k].isNil THEN NilDep
                      ELSE Dep(clArg.items[k].Name,
                               IsInternal(internalPatterns, clArg.items[k]))

\* a list with nil elements before and after an internal dependency was
\* returned, the dependency flagged
C24_Witness ==
    /\ clPc = "returned"
    /\ clRun = 1
    /\ clRet.status = "ret"
    /\ clArg.items = << NilDep, Dep(UiComponents, FALSE), NilDep >>
    /\ clRet.list.items = << NilDep, Dep(UiComponents, TRUE), NilDep >>

(***************************************************************************)
(* Properties of the logger                                                *)
(***************************************************************************)
\* C25: whatever the order and interleaving of the GetLogger and SetLevel
\* calls, SetLevel being the first included, every GetLogger call returns
\* a logger that is not nil, and all of them return the same logger.
C25_LoggerNeverNil ==
    /\ Nil \notin lgReturned
    /\ Cardinality(lgReturned) <= 1

\* when the once.Do of a GetLogger call ran its function, all is well
C25_GetLoggerFirst ==
    zapNew > 0 => C25_LoggerNeverNil

(***************************************************************************)
(* Properties of the scanner and the parser together                       *)
(***************************************************************************)
\* C26: for every file the scanner recognizes and tags with its language,
\* ParseFile dispatches to a parser and does not fail with an error about
\* an unsupported file or an unsupported language.
C26_RecognizedFilesAreParsed ==
    (pfScanned /\ pfRet.status = "ret") =>
        /\ pfParser # "none"
        /\ "unsupported" \notin Range(pfRet.err)

\* the file names the scanner recognizes and no parse function knows
Unparsed == {"build.gradle", "gradle.lockfile", "setup.py"}

\* every other recognized file is dispatched to a parser
C26_ParsedUnlessGradleOrSetup ==
    (pfFile = NoFile \/ getFileName(pfFile.Path) \notin Unparsed)
        => C26_RecognizedFilesAreParsed

(***************************************************************************)
(* Properties of processProject                                            *)
(***************************************************************************)
\* the Report phase has begun
ReportBegun == pc = "report" \/ genCalls > 0

\* C27: every project's Dependencies field is assigned at most once, only
\* when each of its files has been merged or has failed, and every
\* dependency's internal flag is written at most once; when the Report
\* phase has begun each project has had its one assignment and each
\* dependency its one write, so that none is written afterwards.
C27_AssignedAndFlaggedOnce ==
    \A i \in 1..Len(pp) :
        /\ pp[i].assigned <= 1
        /\ pp[i].assigned = 1 =>
             \A j \in 1..Len(pp[i].file) :
                pp[i].file[j].st \in {"done", "failed"}
        /\ \A j \in 1..Len(pp[i].file) :
             \A d \in 1..Len(pp[i].file[j].writes) :
                /\ pp[i].file[j].writes[d] <= 1
                /\ pp[i].file[j].writes[d] = 1 <=> d \in pp[i].file[j].done
        /\ ReportBegun =>
             /\ pp[i].assigned = 1
             /\ \A j \in 1..Len(pp[i].file) :
                  \A d \in 1..Len(pp[i].file[j].writes) :
                     pp[i].file[j].writes[d] = 1

\* the report is being generated for a project of two files with three
\* dependencies in all
C27_Witness ==
    /\ pc = "report"
    /\ genCalls = 1
    /\ \E i \in 1..Len(pp) :
         /\ Len(pp[i].file) = 2
         /\ pp[i].assigned = 1
         /\ Len(allProjects[i].Dependencies) = 3
         /\ \A j \in 1..2 : \A d \in 1..Len(pp[i].file[j].writes) :
              pp[i].file[j].writes[d] = 1

\* the sequential loop of classifyDependenciesConcurrently over a list:
\* the list with its flags set, and the two counts
RECURSIVE ClassifySequentially(_)
ClassifySequentially(deps) ==
    IF deps = <<>>
    THEN [deps |-> <<>>, internalCount |-> 0, externalCount |-> 0]
    ELSE LET n == Len(deps)
             r == ClassifySequentially(SubSeq(deps, 1, n - 1))
             isInternal == MockIsInternal(deps[n].Name)
         IN  [deps |-> Append(r.deps,
                              [deps[n] EXCEPT !.IsInternal = isInternal]),
              internalCount |-> r.internalCount
                                  + (IF isInternal THEN 1 ELSE 0),
              externalCount |-> r.externalCount
                                  + (IF isInternal THEN 0 ELSE 1)]

\* the list ParseFile returned for file j of project i
Parsed(i, j) ==
    [d \in 1..Len(pp[i].file[j].deps) |->
        NewDependency(pp[i].file[j].deps[d].Name)]

\* C29: when the one-task-per-dependency classification of a list of more
\* than 10 dependencies has returned, in whatever order its tasks ran, the
\* flags of the list and the internal and external counts are those the
\* sequential loop gives for that list; while it runs, the tasks that are
\* over have set the flags the sequential loop gives to their dependencies
\* and no other flag, and have counted one dependency each.
C29_ConcurrentAsSequential ==
    \A i \in 1..Len(pp) : \A j \in 1..Len(pp[i].file) :
        LET f == pp[i].file[j]
            s == ClassifySequentially(Parsed(i, j))
        IN  /\ (Concurrent(f) /\ f.st \in {"lock", "merge", "done"}) =>
                  [deps |-> f.deps, internalCount |-> f.internalCount,
                   externalCount |-> f.externalCount] = s
            /\ (Concurrent(f) /\ f.st = "classify") =>
                  /\ \A d \in 1..Len(f.deps) :
                       f.deps[d].IsInternal =
                           (d \in f.done /\ s.deps[d].IsInternal)
                  /\ f.internalCount + f.externalCount
                         = Cardinality(f.done)

\* the tasks of a list of more than 10 dependencies have all run, and the
\* list has internal and external dependencies
C29_Witness ==
    \E i \in 1..Len(pp) : \E j \in 1..Len(pp[i].file) :
        /\ Concurrent(pp[i].file[j])
        /\ pp[i].file[j].st = "lock"
        /\ pp[i].file[j].internalCount > 0
        /\ pp[i].file[j].externalCount > 0

\* file j of project i has had an IsInternal call
Classifying(i, j) == pp[i].file[j].done # {}

\* C30 as stated: no IsInternal call for a project happens before all its
\* ParseFile calls have finished.
C30_ClassifyAfterAllParsed ==
    \A i \in 1..Len(pp) :
        (\E j \in 1..Len(pp[i].file) : Classifying(i, j)) =>
            \A k \in 1..Len(pp[i].file) :
                pp[i].file[k].st \notin {"new", "parsing"}

\* the dependencies of the files of project i that are merged, in number
MergedCount(i) ==
    LET merged == { j \in 1..Len(pp[i].file) : pp[i].file[j].st = "done" }
        RECURSIVE Sum(_)
        Sum(set) == IF set = {} THEN 0
                    ELSE LET j == CHOOSE x \in set : TRUE
                         IN  Len(pp[i].file[j].deps) + Sum(set \ {j})
    IN  Sum(merged)

\* C30, amended: the dependencies of a file are classified after the
\* ParseFile call of that file has returned and before they are merged
\* into the project's list, which holds the dependencies of the merged
\* files only; the project's Dependencies are assigned after every file is
\* merged or has failed.
C30_ClassifyThenMerge ==
    \A i \in 1..Len(pp) :
        /\ \A j \in 1..Len(pp[i].file) :
             LET f == pp[i].file[j] IN
                /\ Classifying(i, j) =>
                     f.st \in {"classify", "lock", "merge", "done"}
                /\ f.st \in {"lock", "merge", "done"} =>
                     f.done = 1..Len(f.deps)
        /\ Len(pp[i].projectDependencies) = MergedCount(i)
        /\ pp[i].st \in {"ret", "update", "done"} =>
             \A j \in 1..Len(pp[i].file) :
                pp[i].file[j].st \in {"done", "failed"}

\* one file of a project is merged, classified, while another file of the
\* project is still being parsed
C30_Witness ==
    \E i \in 1..Len(pp) : \E j, k \in 1..Len(pp[i].file) :
        /\ pp[i].file[j].st = "done"
        /\ pp[i].file[j].done # {}
        /\ pp[i].file[k].st = "parsing"

(***************************************************************************)
(* Properties of GenerateMatrix                                            *)
(***************************************************************************)
\* the dependencies of a project that have the name
Own(project, depName) ==
    { project.Dependencies[k] :
        k \in { x \in 1..Len(project.Dependencies) :
                  project.Dependencies[x].Name = depName } }

\* the rows are the projects with at least one dependency, each once
RowsAreProjects ==
    LET having == FilterProjectsWithDependencies(gmProjects) IN
       /\ Len(gmRet.projects) = Len(having)
       /\ Len(gmRet.matrix) = Len(having)
       /\ \E f \in [1..Len(having) -> 1..Len(having)] :
            /\ \A a, b \in 1..Len(having) : f[a] = f[b] => a = b
            /\ \A a \in 1..Len(having) : gmRet.projects[a] = having[f[a]]

\* the columns are the distinct names of the dependencies of these
\* projects, each once
ColumnsAreNames ==
    LET cols == gmRet.dependencies IN
       /\ \A a, b \in 1..Len(cols) : cols[a].name = cols[b].name => a = b
       /\ { cols[a].name : a \in 1..Len(cols) } =
             UNION { { p.Dependencies[k].Name : k \in 1..Len(p.Dependencies) } :
                       p \in { gmProjects[i] : i \in 1..Len(gmProjects) } }
       /\ \A i \in 1..Len(gmRet.matrix) :
            Len(gmRet.matrix[i]) = Len(cols)

\* a cell is filled exactly when the project of its row has a dependency
\* of the name of its column, and with the fields of such a dependency
CellsAreOwn ==
    \A i \in 1..Len(gmRet.matrix) : \A j \in 1..Len(gmRet.matrix[i]) :
        LET cell == gmRet.matrix[i][j]
            own == Own(gmRet.projects[i], gmRet.dependencies[j].name)
        IN  /\ cell.isNil <=> own = {}
            /\ ~cell.isNil =>
                 \E d \in own :
                    /\ cell.version = d.Version
                    /\ cell.constraint = d.Constraint
                    /\ cell.is_internal = d.IsInternal
                    /\ cell.ecosystem = d.Ecosystem

\* C28: GenerateMatrix returns one row per project with at least one
\* dependency and one column per distinct dependency name of those
\* projects; a cell is filled exactly when the project of its row has a
\* dependency of the name of its column, and then with the version,
\* constraint, internal flag and ecosystem of that project's dependency.
C28_MatrixOfOwnDependencies ==
    gmRet.status = "ret" =>
        RowsAreProjects /\ ColumnsAreNames /\ CellsAreOwn

\* the projects with dependencies have different IDs
DistinctIDs ==
    LET having == FilterProjectsWithDependencies(gmProjects) IN
       \A a, b \in 1..Len(having) : having[a].ID = having[b].ID => a = b

\* the matrix is the one of C28 when no two projects share an ID
C28_OwnDependenciesOfDistinctIDs ==
    (gmRet.status = "ret" /\ DistinctIDs) =>
        RowsAreProjects /\ ColumnsAreNames /\ CellsAreOwn

(***************************************************************************)
(* Properties of the shared lists of Execute                               *)
(***************************************************************************)
\* two lists hold the same elements, each as often
SameElements(a, b) ==
    /\ Len(a) = Len(b)
    /\ \A x \in Range(a) \cup Range(b) : CountIn(a, x) = CountIn(b, x)

\* the lists GetRepositoriesList returned for the first k source URLs that
\* are in S, one after the other
RECURSIVE ResolvedBy(_, _)
ResolvedBy(S, k) ==
    IF k = 0 THEN <<>>
    ELSE ResolvedBy(S, k - 1)
         \o (IF k \in S THEN MockGetRepositoriesList(repositoryURLs[k])
             ELSE <<>>)

\* a project as DetectProjects returns it
Detected(project) ==
    [ID |-> project.ID, DependencyFiles |-> project.DependencyFiles]

\* the projects the successful DetectProjects calls returned for the first
\* k repositories
RECURSIVE DetectedBy(_)
DetectedBy(k) ==
    IF k = 0 THEN <<>>
    ELSE DetectedBy(k - 1)
         \o (IF k \in scanFailed THEN <<>>
             ELSE LET list == MockDetectProjects(repositories[k])
                  IN  [x \in 1..Len(list) |-> Detected(list[x])])

\* the names the successful ParseFile calls returned for the first j files
\* of project i
RECURSIVE ParsedBy(_, _)
ParsedBy(i, j) ==
    IF j = 0 THEN <<>>
    ELSE ParsedBy(i, j - 1)
         \o (IF j \in FailedFiles(i) THEN <<>>
             ELSE MockParseFile(allProjects[i].DependencyFiles[j]))

\* C31: once the Resolve phase has ended the repository list holds exactly
\* the elements of the lists the GetRepositoriesList calls returned (every
\* call when none failed, and as many calls as did not fail otherwise), once
\* the Scan phase has ended the project list holds exactly the projects the
\* successful DetectProjects calls returned, and the dependency list of a
\* processed project holds exactly the dependencies its successful
\* ParseFile calls returned: nothing is lost and nothing is there twice.
C31_AppendsLoseNothing ==
    /\ pc # "resolve" =>
         \E S \in SUBSET (1..Len(urlTask)) :
            /\ Cardinality(S) = Len(urlTask) - Len(errChan)
            /\ SameElements(repositories, ResolvedBy(S, Len(urlTask)))
    /\ pc \in {"process", "report"} \/ (pc = "done" /\ ~ResolveFailed) =>
         SameElements([i \in 1..Len(allProjects) |-> Detected(allProjects[i])],
                      DetectedBy(Len(repositories)))
    /\ \A i \in 1..Len(pp) :
         pp[i].st \in {"ret", "update", "done"} =>
            SameElements(Names(allProjects[i].Dependencies),
                         ParsedBy(i, Len(pp[i].file)))

\* two source URLs gave a repository each and two DetectProjects calls a
\* project each, and Execute has returned
C31_Witness ==
    /\ pc = "done"
    /\ Len(urlTask) = 2
    /\ Len(repositories) = 2
    /\ scanFailed = {}
    /\ Len(allProjects) = 2
    /\ \A i \in 1..Len(pp) : pp[i].st = "done"

(***************************************************************************)
(* Properties of the worker pools                                          *)
(***************************************************************************)
\* every project worker has returned
ProjectsProcessed == pc = "report" \/ (pc = "done" /\ ~ResolveFailed)

\* C32: a project is received from projectChan by at most one worker and
\* is never again in the queue once received, a file of a project is passed
\* to ParseFile at most once; when the project workers have returned every
\* detected project was received once and its Dependencies assigned once,
\* and when processProject has returned every file of the project was
\* passed to ParseFile once.
C32_EachItemOnce ==
    \A i \in 1..Len(pp) :
        /\ pp[i].taken + CountIn(projectChan, i) <= 1
        /\ ProjectsProcessed => (pp[i].taken = 1 /\ pp[i].assigned = 1)
        /\ \A j \in 1..Len(pp[i].file) :
             /\ pp[i].file[j].parsed + CountIn(pp[i].fileChan, j) <= 1
             /\ pp[i].st \in {"ret", "update", "done"} =>
                  pp[i].file[j].parsed = 1

\* more projects than project workers, each received once, and Execute has
\* returned
C32_Witness ==
    /\ pc = "done"
    /\ Len(pp) > defaultProjectWorkers
    /\ \A i \in 1..Len(pp) : pp[i].taken = 1

\* more files than file workers, each parsed once, in a processed project
C32_ManyFiles ==
    \E i \in 1..Len(pp) :
        /\ pp[i].st = "done"
        /\ Len(pp[i].file) > defaultDependencyFileWorkers
        /\ \A j \in 1..Len(pp[i].file) : pp[i].file[j].parsed = 1

(***************************************************************************)
(* Termination of Execute                                                  *)
(***************************************************************************)
\* C33: when every goroutine that can take a step takes one and every
\* collaborator call returns, Execute returns: with no source URL, no
\* repository, no project and a project without manifest files as well.
C33_ExecuteReturns == <>(pc = "done")

\* Execute has returned a result for two projects, one without manifest
\* files and so without file workers
C33_Witness ==
    /\ pc = "done"
    /\ response.status = "ok"
    /\ \E i \in 1..Len(pp) : Len(pp[i].file) = 0 /\ pp[i].workers = 0
    /\ \E i \in 1..Len(pp) : Len(pp[i].file) > 0

(***************************************************************************)
(* Termination of getGroupProjects                                         *)
(***************************************************************************)
\* a value is sent on resultChan or errorChan
SendsResult == Len(resultChan') > Len(resultChan)

SendsError == Len(errorChan') > Len(errorChan)

\* the goroutines getGroupProjects started have returned: the page workers,
\* and the closing goroutine after it has closed both channels
GoroutinesDone ==
    gpStarted => (pageExited = maxWorkers /\ inFlight = {} /\ errorClosed)

\* C34: when every goroutine that can take a step takes one and every page
\* request returns, getGroupProjects returns and every page worker and the
\* closing goroutine terminate, whether the collector has returned early on
\* an error or a cancellation or not; and no value is ever sent on a
\* closed channel.
C34_WorkersTerminate ==
    /\ [][(SendsResult => ~resultClosed) /\ (SendsError => ~errorClosed)]_vars
    /\ <>(gpPc = "returned" /\ GoroutinesDone)

\* the collector has returned an error while a page request was still in
\* flight, and the workers and the closing goroutine have terminated since
C34_Witness ==
    /\ gpPc = "returned"
    /\ gpRet.isNil
    /\ gpStarted
    /\ GoroutinesDone
    /\ resultChan # <<>>

(***************************************************************************)
(* The outcome of Execute as a function of what the collaborators return   *)
(***************************************************************************)
\* the repositories the source URLs resolve to, in the order of the URLs
Resolved == ResolvedBy(1..Len(repositoryURLs), Len(repositoryURLs))

\* the DetectProjects calls for repository r that returned projects
Scans(r) ==
    CountIn(Resolved, r)
        - Cardinality({ k \in scanFailed : repositories[k] = r })

\* how often project p is expected among the detected projects
RECURSIVE ExpectedCopies(_, _)
ExpectedCopies(rs, p) ==
    IF rs = {} THEN 0
    ELSE LET r == CHOOSE x \in rs : TRUE
             list == MockDetectProjects(r)
         IN  Scans(r) * CountIn([x \in 1..Len(list) |-> Detected(list[x])], p)
             + ExpectedCopies(rs \ {r}, p)

RECURSIVE ExpectedProjects(_)
ExpectedProjects(rs) ==
    IF rs = {} THEN 0
    ELSE LET r == CHOOSE x \in rs : TRUE
         IN  Scans(r) * Len(MockDetectProjects(r))
             + ExpectedProjects(rs \ {r})

\* the dependencies expected of project i: what ParseFile returned for its
\* files, in the order of the files, each with the flag of the classifier
ExpectedDependencies(i) ==
    LET names == ParsedBy(i, Len(pp[i].file))
    IN  [d \in 1..Len(names) |->
            [Name |-> names[d], IsInternal |-> MockIsInternal(names[d])]]

RECURSIVE ExpectedTotal(_, _)
ExpectedTotal(i, flags) ==
    IF i = 0 THEN 0
    ELSE ExpectedTotal(i - 1, flags)
         + Len(SelectSeq(ExpectedDependencies(i),
                         LAMBDA dep : dep.IsInternal \in flags))

\* C35: the result Execute returns and the projects it hands to the report
\* generator are determined by the source URLs and by what the
\* collaborator calls return, up to the order of the lists: the projects
\* are those of the DetectProjects calls that succeeded, each with the
\* classified dependencies of its ParseFile calls that succeeded, and the
\* counters of the result count these.
C35_OutcomeIndependentOfSchedule ==
    response.status = "ok" =>
        /\ Len(pp) = Len(genArg)
        /\ Len(genArg) = ExpectedProjects(Range(Resolved))
        /\ \A i \in 1..Len(genArg) :
             /\ CountIn([x \in 1..Len(genArg) |-> Detected(genArg[x])],
                        Detected(genArg[i]))
                    = ExpectedCopies(Range(Resolved), Detected(genArg[i]))
             /\ SameElements(genArg[i].Dependencies, ExpectedDependencies(i))
        /\ response.TotalProjects = ExpectedProjects(Range(Resolved))
        /\ response.TotalDependencies
               = ExpectedTotal(Len(genArg), {TRUE, FALSE})
        /\ response.InternalCount = ExpectedTotal(Len(genArg), {TRUE})
        /\ response.ExternalCount = ExpectedTotal(Len(genArg), {FALSE})

\* a result for a project whose second manifest was merged before its
\* first
C35_Witness ==
    /\ response.status = "ok"
    /\ \E i \in 1..Len(genArg) :
         /\ Len(pp[i].file) = 2
         /\ FailedFiles(i) = {}
         /\ genArg[i].Dependencies # ExpectedDependencies(i)

(***************************************************************************)
(* The project IDs of DetectProjects                                       *)
(***************************************************************************)
\* C36: the projects DetectProjects returns for a repository have pairwise
\* distinct IDs, the project of the repository root and the project of a
\* directory of any name included.
C36_DistinctProjectIDs ==
    scRet.status = "ret" =>
        \A a, b \in 1..Len(scRet.projects) :
            a # b => scRet.projects[a].ID # scRet.projects[b].ID

\* a manifest lies in a directory named "root"
RootDirectory == \E f \in Range(files) : Directory(f) = Join(<<"root">>)

\* the IDs are distinct when no directory of the repository is named "root"
C36_DistinctWithoutRootDirectory ==
    (scRet.status = "ret" /\ ~RootDirectory) =>
        \A a, b \in 1..Len(scRet.projects) :
            a # b => scRet.projects[a].ID # scRet.projects[b].ID

(***************************************************************************)
(* Repositories that several source URLs resolve to                        *)
(***************************************************************************)
\* the DetectProjects calls that have started
Scanned == { k \in 1..Len(scanTask) : scanTask[k] # "ready" }

\* C37: within one Execute no repository is scanned twice, also when
\* several source URLs resolve to it, and the projects of a repository are
\* handed to the report generator, and so counted, once.
C37_EachRepositoryScannedOnce ==
    /\ \A a, b \in Scanned : a # b => repositories[a] # repositories[b]
    /\ \A a, b \in 1..Len(genArg) : a # b => genArg[a].ID # genArg[b].ID

\* no repository is among those of two source URLs, or twice among those of
\* one
DisjointSources ==
    \A a, b \in 1..Len(Resolved) : a # b => Resolved[a] # Resolved[b]

\* every repository is scanned once when the source URLs resolve to
\* different repositories
C37_OnceForDisjointSources ==
    DisjointSources =>
        /\ \A a, b \in Scanned : a # b => repositories[a] # repositories[b]
        /\ \A a, b \in 1..Len(genArg) : a # b => genArg[a].ID # genArg[b].ID

====
